---- MODULE Spec2Model ----
(***************************************************************************)
(* A model of browser_use/browser/context.py (class BrowserContext):       *)
(*   - the allowlist guard _is_url_allowed, a pure function of a URL and   *)
(*     of config.allowed_domains (specification SpecUrl);                  *)
(*   - the network settle detector _wait_for_stable_network, with a clock  *)
(*     in units of its 0.1 s poll interval (specification SpecWait);       *)
(*   - the session lifecycle and the navigation operations of one          *)
(*     BrowserContext driven by one agent task, with the engine's          *)
(*     new-page callback interleaved (specification Spec);                 *)
(*   - the tabs, the state refresh _update_state and reset_context, with   *)
(*     pages that crash or are closed from outside (specification          *)
(*     SpecTabs);                                                          *)
(*   - get_locate_element and the selector synthesis                       *)
(*     _enhanced_css_selector_for_element (specification SpecLocate);      *)
(*   - the state refresh under an allowlist, with the text input and the   *)
(*     click that refresh the highlights (specification SpecRefresh);      *)
(*   - get_session called by several tasks, with the cookie load of        *)
(*     _create_context (specification SpecInit).                           *)
(***************************************************************************)
EXTENDS Integers, Sequences, FiniteSets, TLC

(***************************************************************************)
(* Bounds of the model.                                                    *)
(***************************************************************************)
\* longest URL text (the characters after "scheme://") drawn in SpecUrl
MaxUrlLen == 4

(***************************************************************************)
(* URLs.  A URL is the record [auth, rest]: auth says whether "//" follows *)
(* the scheme (about:blank has none), rest is the text after "scheme://"   *)
(* (or after "scheme:"), a sequence of one-character strings.              *)
(***************************************************************************)
Chars == {"a", "A", "b", ".", ":", "@", "/"}

\* str.lower() on one character
LowerChar(c) == IF c = "A" THEN "a" ELSE c

\* str.lower()
Lower(s) == [i \in 1..Len(s) |-> LowerChar(s[i])]

\* index of the first occurrence of c in s, Len(s)+1 when there is none
FirstIndex(s, c) ==
    IF \E i \in 1..Len(s) : s[i] = c
    THEN CHOOSE i \in 1..Len(s) : s[i] = c /\ \A j \in 1..(i - 1) : s[j] # c
    ELSE Len(s) + 1

\* index of the last occurrence of c in s, 0 when there is none
LastIndex(s, c) ==
    IF \E i \in 1..Len(s) : s[i] = c
    THEN CHOOSE i \in 1..Len(s) : s[i] = c /\ \A j \in (i + 1)..Len(s) : s[j] # c
    ELSE 0

\* s[:n]
Prefix(s, n) == SubSeq(s, 1, n)

\* s[n:] (0-based n)
Suffix(s, n) == SubSeq(s, n + 1, Len(s))

\* s.split(c)[0]
SplitFirst(s, c) == Prefix(s, FirstIndex(s, c) - 1)

\* s.endswith(suf)
EndsWith(s, suf) ==
    /\ Len(suf) <= Len(s)
    /\ SubSeq(s, Len(s) - Len(suf) + 1, Len(s)) = suf

\* urlparse(url).netloc: the text between "//" and the next "/"
Netloc(url) == IF url.auth THEN SplitFirst(url.rest, "/") ELSE << >>

\* the domain _is_url_allowed compares: netloc.lower(), cut at the first ':'
CodeDomain(url) ==
    LET domain == Lower(Netloc(url))
    IN  IF \E i \in 1..Len(domain) : domain[i] = ":"
        THEN SplitFirst(domain, ":")
        ELSE domain

\* domain == allowed_domain.lower() or domain.endswith('.' + allowed_domain.lower())
DomainMatches(domain, allowed_domain) ==
    \/ domain = Lower(allowed_domain)
    \/ EndsWith(domain, <<".">> \o Lower(allowed_domain))

\* config.allowed_domains: [isNone, entries]; isNone is Python's None
NoAllowlist == [isNone |-> TRUE, entries |-> << >>]

AllowList(entries) == [isNone |-> FALSE, entries |-> entries]

\* BrowserContext._is_url_allowed
IsUrlAllowed(allowed, url) ==
    IF allowed.isNone \/ allowed.entries = << >>
    THEN TRUE
    ELSE \E k \in 1..Len(allowed.entries) :
            DomainMatches(CodeDomain(url), allowed.entries[k])

(***************************************************************************)
(* Program constants of the settle detector, in units of 0.1 s.            *)
(***************************************************************************)
\* asyncio.sleep(0.1): the poll interval
PollTicks == 1

\* config.wait_for_network_idle_page_load_time = 1 (s)
IdleTicks == 10

\* config.maximum_wait_page_load_time = 5 (s)
MaxTicks == 50

\* requests the page may start during one wait
MaxRequests == 2

Requests == 1..MaxRequests

VARIABLES
    \* ---- SpecUrl: one evaluation of _is_url_allowed
    url,                \* the argument
    allowed_domains,    \* config.allowed_domains
    url_pc,             \* "input" | "checked"
    url_result,         \* what _is_url_allowed returned
    \* ---- SpecWait: _wait_for_stable_network
    now,                \* the event loop's clock, counted from the call's entry
    w_pc,               \* "idle": no wait in progress | "polling": inside the loop
    start_time,         \* local start_time
    last_activity,      \* local last_activity
    pending_requests,   \* local pending_requests
    next_poll,          \* when the pending asyncio.sleep(0.1) returns
    w_listening,        \* on_request / on_response are subscribed on the page
    w_exit,             \* how the last wait ended: "none" | "idle" | "timeout"
    w_end,              \* the clock when it ended
    w_logged,           \* the 'Network timeout' debug line was written
    req_state,          \* per tracked request: "unsent" | "pending" | "resolved" | "filtered"
    h_idle,             \* history: ticks since pending_requests last changed, capped at IdleTicks
    \* ---- Spec: the session, the engine and the agent's task
    session,            \* self.session: [context, current_page, cached_state]; context 0 is None
    n_contexts,         \* engine contexts created so far (browser.new_context calls)
    pages,              \* context.pages of the open context, in creation order
    page_url,           \* page.url per page
    page_prev,          \* the history entry page.go_back would return to, per page
    pending_on_page,    \* engine-opened pages whose on_page callback has not finished
    listeners,          \* the settle detector's subscriptions: <<page, event>>
    pc,                 \* where the agent's task is suspended; "ready" between calls
    op,                 \* the operation being run, or run last
    ret,                \* "running" | "ok" | the exception class the operation raised
    why,                \* what an exception reports
    l_page,             \* local `page` of the running operation
    l_url,              \* argument `url` of the running operation
    l_idx,              \* argument `page_id` of switch_to_tab
    l_wpage,            \* local `page` of _wait_for_stable_network
    l_effect,           \* what the click made the engine do
    chk,                \* history: the last _check_and_handle_navigation call
    h_wait,             \* history: the last _wait_for_stable_network call that ended
    closed_once,        \* history: close() has completed on an active session
    current_state,      \* self.current_state (set by _update_state); NoState: no attribute
    crashed,            \* open pages whose renderer crashed: listed in context.pages, unresponsive
    h_close,            \* history: what the last close() call did
    h_state,            \* history: what the last _update_state or reset_context call did
    \* ---- SpecLocate: get_locate_element and _enhanced_css_selector_for_element
    element,            \* the argument: a DOMElementNode; parents: its ancestors, nearest first
    loc_pc,             \* "input" | "frames" | "done"
    loc_frames,         \* current_frame: the selectors of the frame locators it is nested in
    loc_next,           \* the nodes of the local list `iframes` not yet processed
    loc_result,         \* how the engine answered and what get_locate_element returned
    \* ---- SpecInit: the callers of get_session
    t_pc,               \* per caller: "idle" | "create" | "add_cookies" | "new_page" | "done"
    t_context,          \* per caller: local `context` of _initialize_session; 0: not yet
    t_page,             \* per caller: the page context.new_page() is opening; 0: not yet
    t_ret,              \* per caller: the context of the session its call returned;
                        \* 0: nothing yet, Raised_: the call raised
    cookies_file        \* config.cookies_file: "unset" | "absent" | "valid" | "corrupt"

urlVars == <<url, allowed_domains, url_pc, url_result>>

waitVars == <<now, w_pc, start_time, last_activity, pending_requests, next_poll,
              w_listening, w_exit, w_end, w_logged, req_state, h_idle>>

sessVars == <<session, n_contexts, pages, page_url, page_prev, pending_on_page, listeners,
              pc, op, ret, why, l_page, l_url, l_idx, l_wpage, l_effect, chk, h_wait,
              closed_once, current_state, crashed, h_close, h_state>>

tabVars == <<current_state, crashed, h_close, h_state>>

locVars == <<element, loc_pc, loc_frames, loc_next, loc_result>>

\* the callers of get_session: where each one stands, the context and the page its
\* _initialize_session holds in locals, what its call gave; and the cookies file
initVars == <<t_pc, t_context, t_page, t_ret, cookies_file>>

vars == <<urlVars, waitVars, sessVars, locVars, initVars>>

(***************************************************************************)
(* SpecUrl: _is_url_allowed applied to every URL text of up to MaxUrlLen   *)
(* characters under each of a few configured allowlists.                   *)
(***************************************************************************)
RECURSIVE SeqsUpTo(_)
SeqsUpTo(n) ==
    IF n = 0 THEN {<< >>}
    ELSE LET shorter == SeqsUpTo(n - 1)
         IN  shorter \cup {Append(s, c) : s \in {t \in shorter : Len(t) = n - 1}, c \in Chars}

UrlInputs == {[auth |-> a, rest |-> r] : a \in BOOLEAN, r \in SeqsUpTo(MaxUrlLen)}

AllowlistInputs ==
    { NoAllowlist,
      AllowList(<< >>),
      AllowList(<< <<"a">> >>),
      AllowList(<< <<"A">> >>),
      AllowList(<< <<"b", ".", "a">>, <<"A", "a">> >>) }

\* ids the engine gives its pages
MaxPageIds == 2

PageIds == 1..MaxPageIds

\* contexts the engine may be asked to create
MaxContexts == 2

\* no URL: an absent `url` argument, an empty history
NoUrl == [auth |-> FALSE, rest |-> << >>]

\* about:blank, the URL of a page just opened
Blank == [auth |-> FALSE, rest |-> <<"b">>]

\* https://a/ and https://b/
UrlA == [auth |-> TRUE, rest |-> <<"a">>]

UrlB == [auth |-> TRUE, rest |-> <<"b">>]

\* the URLs a navigation may end on
WebUrls == {UrlA, UrlB}

\* a selector map: none, the empty dict, or the elements of the document at u
SelectorMap(kind, u) == [kind |-> kind, url |-> u]

\* a BrowserState.  History fields: h_one_page says that every part of it was read
\* from one page, h_context is the context it was extracted in, h_stale says that
\* reset_context ran after it was extracted.
BrowserState(u, map, tabs, screenshot, one_page, context) ==
    [url |-> u, selector_map |-> map, tabs |-> tabs, screenshot |-> screenshot,
     h_one_page |-> one_page, h_context |-> context, h_stale |-> FALSE]

\* no snapshot (there is no session, there is no attribute)
NoState == BrowserState(NoUrl, SelectorMap("none", NoUrl), 0, "none", TRUE, 0)

\* self.session is None
NoSession == [context |-> 0, current_page |-> 0, cached_state |-> NoState]

\* no _check_and_handle_navigation call in the running operation yet
NoCheck == [called |-> FALSE, violated |-> FALSE, go_back_calls |-> 0,
            go_back_on_checked_page |-> FALSE, raised |-> "none"]

\* no element
NoElement ==
    [tag_name |-> "", highlight_index |-> 0, xpath |-> [kind |-> "none", steps |-> << >>],
     attributes |-> << >>, parents |-> << >>]

\* get_locate_element has not resolved anything yet
NoLocate ==
    [engine |-> "none", selector |-> "", frames |-> << >>, returned |-> "none",
     raised |-> "none"]

\* no close() call has run since the agent's last call; after_close: the call before
\* this one was close() too
NoClose == [after_close |-> FALSE, was_active |-> FALSE, save_cookies |-> "none",
            trace_stop |-> "none", context_close |-> "none"]

\* no _update_state call has run in the running operation yet, and reset_context has
\* closed no page
NoUpdate == [called |-> FALSE, probe |-> "none", extraction |-> "none", pages_closed |-> 0]

\* no _wait_for_stable_network call has ended in the running operation yet
NoWait == [page |-> 0, how |-> "none", current |-> 0]

\* BrowserContext.__init__: no session, nothing created in the engine
SessionIdleOver(ids) ==
    /\ session = NoSession
    /\ n_contexts = 0
    /\ pages = << >>
    /\ page_url = [p \in ids |-> NoUrl]
    /\ page_prev = [p \in ids |-> NoUrl]
    /\ pending_on_page = {}
    /\ listeners = {}
    /\ pc = "ready"
    /\ op = "none"
    /\ ret = "ok"
    /\ why = ""
    /\ l_page = 0
    /\ l_url = NoUrl
    /\ l_idx = 0
    /\ l_wpage = 0
    /\ l_effect = "none"
    /\ chk = NoCheck
    /\ h_wait = NoWait
    /\ closed_once = FALSE
    /\ current_state = NoState
    /\ crashed = {}
    /\ h_close = NoClose
    /\ h_state = NoUpdate

SessionIdle == SessionIdleOver(PageIds)

\* the state of the element-location part before any call
LocateIdle ==
    /\ element = NoElement
    /\ loc_pc = "input"
    /\ loc_frames = << >>
    /\ loc_next = << >>
    /\ loc_result = NoLocate

\* tasks that may call get_session on the one BrowserContext at the same time
MaxTasks == 2

Tasks == 1..MaxTasks

\* what a get_session call has given so far: nothing
NoReturn == [raised |-> FALSE, context |-> 0]

\* the state of the session-creation part when no task is inside get_session
CreationIdle ==
    /\ t_pc = [t \in Tasks |-> "idle"]
    /\ t_context = [t \in Tasks |-> 0]
    /\ t_page = [t \in Tasks |-> 0]
    /\ t_ret = [t \in Tasks |-> NoReturn]
    /\ cookies_file = "unset"

\* some task is suspended inside an operation: the event loop runs callbacks
TaskSuspended == pc # "ready" \/ \E t \in Tasks : t_pc[t] \notin {"idle", "done"}

\* the state of the URL part before any evaluation
UrlIdle ==
    /\ url = [auth |-> FALSE, rest |-> << >>]
    /\ url_pc = "input"
    /\ url_result = FALSE

\* the state of the wait part while no wait was ever started
WaitIdle ==
    /\ now = 0
    /\ w_pc = "idle"
    /\ start_time = 0
    /\ last_activity = 0
    /\ pending_requests = {}
    /\ next_poll = 0
    /\ w_listening = FALSE
    /\ w_exit = "none"
    /\ w_end = 0
    /\ w_logged = FALSE
    /\ req_state = [r \in Requests |-> "unsent"]
    /\ h_idle = 0

InitUrl ==
    /\ url \in UrlInputs
    /\ allowed_domains \in AllowlistInputs
    /\ url_pc = "input"
    /\ url_result = FALSE
    /\ WaitIdle
    /\ SessionIdle
    /\ LocateIdle
    /\ CreationIdle

\* a call of _is_url_allowed(url)
CheckUrl ==
    /\ url_pc = "input"
    /\ url_result' = IsUrlAllowed(allowed_domains, url)
    /\ url_pc' = "checked"
    /\ UNCHANGED <<url, allowed_domains, waitVars, sessVars, locVars, initVars>>

NextUrl == CheckUrl

SpecUrl == InitUrl /\ [][NextUrl]_vars

(***************************************************************************)
(* SpecWait: _wait_for_stable_network on one page.  The clock counts poll  *)
(* intervals from the call's entry; requests and responses arrive at any   *)
(* instant, before or after the poll of that instant.  Headers are         *)
(* well-formed (a content-length that is not a number makes on_response    *)
(* raise inside the engine's callback and leaves the request pending).     *)
(* The caller lets the wait run to its end here; a cancelled wait is part  *)
(* of Spec.                                                                *)
(***************************************************************************)
RELEVANT_RESOURCE_TYPES == {"document", "stylesheet", "image", "font", "script", "iframe"}

REALTIME_RESOURCE_TYPES == {"websocket", "media", "eventsource", "manifest", "other"}

\* a request as on_request reads it
Request(resource_type, ignored_url, data_url, prefetch) ==
    [resource_type |-> resource_type,
     ignored_url   |-> ignored_url,   \* the URL contains one of IGNORED_URL_PATTERNS
     data_url      |-> data_url,      \* the URL starts with data: or blob:
     prefetch      |-> prefetch]      \* purpose: prefetch, or sec-fetch-dest video / audio

\* the requests the page may issue: two that pass every filter, and one per filter
RequestShapes ==
    { Request("document", FALSE, FALSE, FALSE),
      Request("image", FALSE, FALSE, FALSE),
      Request("websocket", FALSE, FALSE, FALSE),
      Request("media", FALSE, FALSE, FALSE),
      Request("script", TRUE, FALSE, FALSE),
      Request("image", FALSE, TRUE, FALSE),
      Request("document", FALSE, FALSE, TRUE) }

\* on_request's filters: TRUE when the request is added to pending_requests
Tracked(q) ==
    /\ q.resource_type \in RELEVANT_RESOURCE_TYPES
    /\ q.resource_type \notin REALTIME_RESOURCE_TYPES
    /\ ~q.ignored_url
    /\ ~q.data_url
    /\ ~q.prefetch

\* a response as on_response reads it
Response(content_type, too_large) ==
    [content_type |-> content_type,
     too_large    |-> too_large]      \* content-length present and > 5 * 1024 * 1024

\* the responses a request may get: two that pass every filter, and one per filter
ResponseShapes ==
    { Response("text/html", FALSE),
      Response("image/png", FALSE),
      Response("video/mp4", FALSE),
      Response("application/pdf", FALSE),
      Response("", FALSE),
      Response("text/html", TRUE) }

STREAMING_CONTENT_TYPES == {"video/mp4"}

RELEVANT_CONTENT_TYPES == {"text/html", "image/png"}

\* on_response's filters: TRUE when the response counts as activity
CountsAsActivity(p) ==
    /\ p.content_type \notin STREAMING_CONTENT_TYPES
    /\ p.content_type \in RELEVANT_CONTENT_TYPES
    /\ ~p.too_large

Min(a, b) == IF a <= b THEN a ELSE b

InitWait ==
    /\ UrlIdle
    /\ allowed_domains = NoAllowlist
    /\ WaitIdle
    /\ SessionIdle
    /\ LocateIdle
    /\ CreationIdle

\* entry of _wait_for_stable_network up to the first asyncio.sleep
StartWait ==
    /\ w_pc = "idle"
    /\ now' = 0
    /\ pending_requests' = {}
    /\ last_activity' = 0
    /\ w_listening' = TRUE
    /\ start_time' = 0
    /\ next_poll' = PollTicks
    /\ w_pc' = "polling"
    /\ w_exit' = "none"
    /\ w_end' = 0
    /\ w_logged' = FALSE
    /\ req_state' = [r \in Requests |-> "unsent"]
    /\ h_idle' = 0
    /\ UNCHANGED <<urlVars, sessVars, locVars, initVars>>

\* the clock advances while the loop sleeps
Tick ==
    /\ w_pc = "polling"
    /\ now < next_poll
    /\ now' = now + 1
    /\ h_idle' = Min(h_idle + 1, IdleTicks)
    /\ UNCHANGED <<urlVars, sessVars, locVars, initVars, w_pc, start_time, last_activity,
                   pending_requests, next_poll, w_listening, w_exit, w_end, w_logged, req_state>>

\* the page starts request r: the engine calls on_request, which returns at once
\* for a request its filters reject
OnRequest(r, q) ==
    /\ w_listening
    /\ req_state[r] = "unsent"
    /\ \A o \in Requests : o < r => req_state[o] # "unsent"
    /\ IF Tracked(q)
       THEN /\ pending_requests' = pending_requests \cup {r}
            /\ last_activity' = now
            /\ req_state' = [req_state EXCEPT ![r] = "pending"]
            /\ h_idle' = 0
       ELSE UNCHANGED <<pending_requests, last_activity, req_state, h_idle>>
    /\ UNCHANGED <<urlVars, sessVars, locVars, initVars, now, w_pc, start_time, next_poll,
                   w_listening, w_exit, w_end, w_logged>>

\* request r gets its response: the engine calls on_response, which returns at once
\* for a request that is not pending
OnResponse(r, p) ==
    /\ w_listening
    /\ IF r \notin pending_requests
       THEN UNCHANGED <<pending_requests, last_activity, req_state, h_idle>>
       ELSE IF ~CountsAsActivity(p)
       THEN /\ pending_requests' = pending_requests \ {r}
            /\ req_state' = [req_state EXCEPT ![r] = "filtered"]
            /\ h_idle' = 0
            /\ UNCHANGED last_activity
       ELSE /\ pending_requests' = pending_requests \ {r}
            /\ last_activity' = now
            /\ req_state' = [req_state EXCEPT ![r] = "resolved"]
            /\ h_idle' = 0
    /\ UNCHANGED <<urlVars, sessVars, locVars, initVars, now, w_pc, start_time, next_poll,
                   w_listening, w_exit, w_end, w_logged>>

\* len(pending_requests) == 0 and (now - last_activity) >= wait_for_network_idle_page_load_time
IdleReachedNoPendingTest == now - last_activity >= IdleTicks
IdleReached == pending_requests = {} /\ now - last_activity >= IdleTicks

\* now - start_time > maximum_wait_page_load_time
TimedOutAtMax == now - start_time >= MaxTicks
TimedOut == now - start_time > MaxTicks

\* the finally block and the return (or the raise)
EndWait(how) ==
    /\ w_listening' = FALSE
    /\ w_pc' = "idle"
    /\ w_exit' = how
    /\ w_end' = now

\* one turn of the loop after asyncio.sleep(0.1) returned
Poll ==
    /\ w_pc = "polling"
    /\ now = next_poll
    /\ IF IdleReached
       THEN /\ EndWait("idle")
            /\ UNCHANGED <<next_poll, w_logged>>
       ELSE IF TimedOut
       THEN /\ w_logged' = TRUE
            /\ EndWait("timeout")
            /\ UNCHANGED next_poll
       ELSE /\ next_poll' = now + PollTicks
            /\ UNCHANGED <<w_listening, w_pc, w_exit, w_end, w_logged>>
    /\ UNCHANGED <<urlVars, sessVars, locVars, initVars, now, start_time, last_activity,
                   pending_requests, req_state, h_idle>>

NextWait ==
    \/ StartWait
    \/ Tick
    \/ \E r \in Requests, q \in RequestShapes : OnRequest(r, q)
    \/ \E r \in Requests, p \in ResponseShapes : OnResponse(r, p)
    \/ Poll

\* the event loop runs its timers: the clock advances and a due sleep returns
SpecWait == InitWait /\ [][NextWait]_vars /\ WF_vars(Tick) /\ WF_vars(Poll)

(***************************************************************************)
(* Spec: one BrowserContext with an allowlist configured, used by one      *)
(* agent task.  The task runs one operation at a time and is suspended at  *)
(* the operation's awaits (pc).  A click may make the engine open a page   *)
(* of its own (target=_blank); the context's on_page callback for it runs  *)
(* once that page has loaded, between any two steps of the task.  For a    *)
(* page the session opens itself (about:blank) the callback finds it       *)
(* loaded at once and assigns the page the opening code assigns.  pc is    *)
(* "ready" at the instant an operation has returned, with its result in    *)
(* op, ret and why; the time until the agent's next call passes at that    *)
(* call's entry label.  The calls into the engine that create or close     *)
(* contexts and pages succeed; _initialize_session runs without            *)
(* interleaving.                                                           *)
(***************************************************************************)
\* the allowlist of the modelled configuration: allowed_domains = ['a']
ConfiguredAllowlist == AllowList(<< <<"a">> >>)

Range(f) == {f[i] : i \in 1..Len(f)}

\* the page is open in the context
PageOpen(p) == p \in Range(pages)

\* ids no live reference holds
FreshIds == DOMAIN page_url \ (Range(pages) \cup {session.current_page, l_page, l_wpage})

FreshId == CHOOSE p \in FreshIds : \A q \in FreshIds : p <= q

\* pages without page p
RECURSIVE Without(_, _)
Without(seq, p) ==
    IF seq = << >> THEN << >>
    ELSE IF Head(seq) = p THEN Without(Tail(seq), p)
    ELSE <<Head(seq)>> \o Without(Tail(seq), p)

\* _get_initial_state(page)
InitialState(u) == BrowserState(u, SelectorMap("empty", NoUrl), 0, "none", TRUE, 0)

\* the operations the agent may call, with the label each starts at
EntryLabel ==
    [get_session |-> "gs",
     close |-> "close",
     navigate_to |-> "nav_check",
     go_back |-> "gb",
     switch_to_tab |-> "sw",
     create_new_tab |-> "tab_check",
     wait_for_page_and_frames_load |-> "wait_enter",
     click_element_node |-> "click",
     close_current_tab |-> "cct",
     get_state |-> "wait_enter",
     reset_context |-> "reset",
     input_text_element_node |-> "us_probe"]

\* the operations called in Spec
Operations ==
    {"get_session", "close", "navigate_to", "go_back", "switch_to_tab", "create_new_tab",
     "wait_for_page_and_frames_load", "click_element_node", "close_current_tab"}

\* the labels at which the code calls get_session (directly or by get_current_page)
NeedsSession ==
    {"gs", "nav_goto", "gb", "sw", "tab_new", "wait_enter", "click", "cct", "reset",
     "us_probe"}

\* the arguments the agent may pass
UrlArgs == WebUrls

IndexArgs == (0 - (MaxPageIds + 1))..MaxPageIds

\* the operation ends: it returns (r = "ok") or raises r
Return(r, w) ==
    /\ pc' = "ready"
    /\ ret' = r
    /\ why' = w
    /\ l_page' = 0
    /\ l_wpage' = 0

InitSpec ==
    /\ UrlIdle
    /\ allowed_domains = ConfiguredAllowlist
    /\ WaitIdle
    /\ SessionIdle
    /\ LocateIdle
    /\ CreationIdle

\* the arguments operation o takes: a url (NoUrl: none) and a page_id
UrlArgsOf(o) ==
    IF o = "navigate_to" THEN UrlArgs
    ELSE IF o = "create_new_tab" THEN UrlArgs \cup {NoUrl}
    ELSE {NoUrl}

\* for get_state the argument is use_vision (1: True)
IndexArgsOf(o) ==
    IF o = "switch_to_tab" THEN IndexArgs
    ELSE IF o = "get_state" THEN {0, 1}
    ELSE {0}

\* the agent calls operation o
Call(o, u, i) ==
    /\ pc = "ready"
    /\ u \in UrlArgsOf(o)
    /\ i \in IndexArgsOf(o)
    /\ op' = o
    /\ pc' = EntryLabel[o]
    /\ ret' = "running"
    /\ why' = ""
    /\ l_url' = u
    /\ l_idx' = i
    /\ l_effect' = "none"
    /\ chk' = NoCheck
    /\ h_wait' = NoWait
    /\ h_close' = [NoClose EXCEPT !.after_close = (o = "close" /\ op = "close")]
    /\ h_state' = NoUpdate
    /\ UNCHANGED <<urlVars, waitVars, locVars, initVars, current_state, crashed, session,
                   n_contexts, pages, page_url, page_prev, pending_on_page, listeners, l_page,
                   l_wpage, closed_once>>

\* get_session finds self.session None: _initialize_session creates a context,
\* subscribes on_page, opens a page and builds the session
InitializeSession ==
    /\ pc \in NeedsSession
    /\ session.context = 0
    /\ n_contexts < MaxContexts
    /\ FreshIds # {}
    /\ n_contexts' = n_contexts + 1
    /\ pages' = <<FreshId>>
    /\ page_url' = [page_url EXCEPT ![FreshId] = Blank]
    /\ page_prev' = [page_prev EXCEPT ![FreshId] = NoUrl]
    /\ session' = [context |-> n_contexts + 1,
                   current_page |-> FreshId,
                   cached_state |-> InitialState(Blank)]
    /\ UNCHANGED <<urlVars, waitVars, locVars, initVars, tabVars, pending_on_page, listeners,
                   pc, op, ret, why, l_page, l_url, l_idx, l_wpage, l_effect, chk, h_wait,
                   closed_once>>

\* get_session / get_current_page returns the session
GetSession ==
    /\ pc = "gs"
    /\ session.context # 0
    /\ Return("ok", "")
    /\ UNCHANGED <<urlVars, waitVars, locVars, initVars, tabVars, session, n_contexts, pages,
                   page_url, page_prev, pending_on_page, listeners, op, l_url, l_idx, l_effect,
                   chk, h_wait, closed_once>>

\* the modelled configuration sets config.cookies_file and config.trace_path
CookiesFileConfigured == TRUE

TracePathConfigured == TRUE

\* how an engine or file-system call made by close() may end
Fates == {"ok", "failed"}

\* a variant of the test below that never finds the session closed
AlreadyClosedNever == FALSE
\* close(), line 159: self.session is None
AlreadyClosed == session.context = 0

\* a variant of the rule below in which a failed trace stop ends the teardown
ContextCloseUnlessTraceFailed(trace_stop) == trace_stop # "failed"
\* close(), lines 165-171: the failure of tracing.stop is caught and logged, and
\* context.close() is called whatever became of the trace stop
ContextCloseAttempted(trace_stop) == TRUE

\* close(): nothing if there is no session; else save_cookies, tracing.stop and
\* context.close, each failure logged, and self.session = None in the finally block.
\* The engine's pages go with the session, also when context.close() failed.
Close ==
    /\ pc = "close"
    /\ IF AlreadyClosed
       THEN UNCHANGED <<session, pages, page_url, page_prev, pending_on_page, closed_once,
                        crashed, h_close>>
       ELSE /\ \E cookies \in Fates, trace \in Fates, ctx \in Fates :
                 h_close' = [h_close EXCEPT
                     !.was_active = TRUE,
                     !.save_cookies = IF CookiesFileConfigured THEN cookies ELSE "none",
                     !.trace_stop = IF TracePathConfigured THEN trace ELSE "none",
                     !.context_close = IF ContextCloseAttempted(trace) THEN ctx ELSE "none"]
            /\ pages' = << >>
            /\ page_url' = [p \in DOMAIN page_url |-> NoUrl]
            /\ page_prev' = [p \in DOMAIN page_prev |-> NoUrl]
            /\ pending_on_page' = {}
            /\ crashed' = {}
            /\ session' = NoSession
            /\ closed_once' = TRUE
    /\ Return("ok", "")
    /\ UNCHANGED <<urlVars, waitVars, locVars, initVars, current_state, h_state, n_contexts,
                   listeners, op, l_url, l_idx, l_effect, chk, h_wait>>

\* where a load of u may end: on u, or where the server redirects to
Lands(u) == {u} \cup WebUrls

\* the engine loads u in page p and ends on `landed`; the URL it left becomes the
\* history entry
Goto(p, landed) ==
    /\ page_url' = [page_url EXCEPT ![p] = landed]
    /\ page_prev' = [page_prev EXCEPT ![p] = page_url[p]]

\* a variant of the check below that navigates the current page before it looks at the URL
NavigateToGotoFirst ==
    /\ pc = "nav_check"
    /\ session.context # 0
    /\ PageOpen(session.current_page)
    /\ \E landed \in Lands(l_url) : Goto(session.current_page, landed)
    /\ IF ~IsUrlAllowed(allowed_domains, l_url)
       THEN Return("BrowserError", "not_allowed")
       ELSE /\ pc' = "nav_load"
            /\ UNCHANGED <<ret, why, l_page, l_wpage>>
    /\ UNCHANGED <<urlVars, waitVars, locVars, initVars, tabVars, session, n_contexts, pages,
                   pending_on_page, listeners, op, l_url, l_idx, l_effect, chk, h_wait,
                   closed_once>>

\* navigate_to(url): the allowlist check, which raises before anything else is done
NavigateToCheck ==
    /\ pc = "nav_check"
    /\ IF ~IsUrlAllowed(allowed_domains, l_url)
       THEN Return("BrowserError", "not_allowed")
       ELSE /\ pc' = "nav_goto"
            /\ UNCHANGED <<ret, why, l_page, l_wpage>>
    /\ UNCHANGED <<urlVars, waitVars, locVars, initVars, tabVars, session, n_contexts, pages,
                   page_url, page_prev, pending_on_page, listeners, op, l_url, l_idx, l_effect,
                   chk, h_wait, closed_once>>

\* navigate_to, the check passed: page = get_current_page(); page.goto(url)
NavigateToGoto ==
    /\ pc = "nav_goto"
    /\ session.context # 0
    /\ IF PageOpen(session.current_page)
       THEN /\ \E landed \in Lands(l_url) : Goto(session.current_page, landed)
            /\ pc' = "nav_load"
            /\ l_page' = session.current_page
            /\ UNCHANGED <<ret, why, l_wpage>>
       ELSE \* the page is closed: goto raises the engine's error
            /\ Return("Exception", "engine")
            /\ UNCHANGED <<page_url, page_prev>>
    /\ UNCHANGED <<urlVars, waitVars, locVars, initVars, tabVars, session, n_contexts, pages,
                   pending_on_page, listeners, op, l_url, l_idx, l_effect, chk, h_wait,
                   closed_once>>

\* navigate_to: page.wait_for_load_state() returns
NavigateToReturn ==
    /\ pc = "nav_load"
    /\ Return("ok", "")
    /\ UNCHANGED <<urlVars, waitVars, locVars, initVars, tabVars, session, n_contexts, pages,
                   page_url, page_prev, pending_on_page, listeners, op, l_url, l_idx, l_effect,
                   chk, h_wait, closed_once>>

\* navigate_to(url)
NavigateTo == NavigateToCheck \/ NavigateToGoto \/ NavigateToReturn

\* page.go_back(timeout=10) on page p: it returns to the history entry, or fails
\* (no entry, timeout) and leaves the page where it is
EngineGoBack(p, works) ==
    IF works /\ PageOpen(p) /\ page_prev[p] # NoUrl
    THEN /\ page_url' = [page_url EXCEPT ![p] = page_prev[p]]
         /\ page_prev' = [page_prev EXCEPT ![p] = NoUrl]
    ELSE UNCHANGED <<page_url, page_prev>>

\* go_back(): acts on get_current_page(); the engine's failure is logged
GoBack ==
    /\ pc = "gb"
    /\ session.context # 0
    /\ \E works \in BOOLEAN : EngineGoBack(session.current_page, works)
    /\ Return("ok", "")
    /\ UNCHANGED <<urlVars, waitVars, locVars, initVars, tabVars, session, n_contexts, pages,
                   pending_on_page, listeners, op, l_url, l_idx, l_effect, chk, h_wait,
                   closed_once>>

\* a variant of the definition below that also replaces the cached snapshot
OnPageResetsCachedState(p) ==
    [session EXCEPT !.current_page = p, !.cached_state = InitialState(page_url[p])]
\* on_page, line 215: self.session.current_page = page
OnPageAssigns(p) == [session EXCEPT !.current_page = p]

\* on_page(page) after page.wait_for_load_state(): the new page becomes the current
\* page if there is a session
OnPage(p) ==
    /\ TaskSuspended
    /\ p \in pending_on_page
    /\ pending_on_page' = pending_on_page \ {p}
    /\ IF session.context # 0
       THEN session' = OnPageAssigns(p)
       ELSE UNCHANGED session
    /\ UNCHANGED <<urlVars, waitVars, locVars, initVars, tabVars, n_contexts, pages, page_url,
                   page_prev, listeners, pc, op, ret, why, l_page, l_url, l_idx, l_wpage,
                   l_effect, chk, h_wait, closed_once>>

\* the page go_back() acts on inside _check_and_handle_navigation(page): it asks
\* get_current_page() and ignores the page that was checked
GoBackTarget(page) == session.current_page

\* _check_and_handle_navigation(page), the URL is not allowed: go_back once, whatever
\* becomes of it, then raise URLNotAllowedError
CheckDenied(page) ==
    /\ ~IsUrlAllowed(allowed_domains, page_url[page])
    /\ \E works \in BOOLEAN : EngineGoBack(GoBackTarget(page), works)
    /\ chk' = [called |-> TRUE, violated |-> TRUE, go_back_calls |-> 1,
               go_back_on_checked_page |-> (GoBackTarget(page) = page),
               raised |-> "URLNotAllowedError"]
    /\ Return("URLNotAllowedError", "not_allowed")

\* _check_and_handle_navigation(page), the URL is allowed: nothing is done
CheckPassed(page) ==
    /\ IsUrlAllowed(allowed_domains, page_url[page])
    /\ chk' = [called |-> TRUE, violated |-> FALSE, go_back_calls |-> 0,
               go_back_on_checked_page |-> FALSE, raised |-> "none"]
    /\ UNCHANGED <<page_url, page_prev>>

\* switch_to_tab(page_id): pages[page_id] with Python's indexing
SwitchToTab ==
    /\ pc = "sw"
    /\ session.context # 0
    /\ l_idx' = 0
    /\ IF l_idx >= Len(pages)
       THEN /\ Return("BrowserError", "no_tab")
            /\ UNCHANGED session
       ELSE IF l_idx < 0 - Len(pages)
       THEN /\ Return("IndexError", "no_tab")
            /\ UNCHANGED session
       ELSE LET page == IF l_idx >= 0 THEN pages[l_idx + 1]
                                      ELSE pages[Len(pages) + l_idx + 1]
            IN  IF ~IsUrlAllowed(allowed_domains, page_url[page])
                THEN /\ Return("BrowserError", "not_allowed")
                     /\ UNCHANGED session
                ELSE /\ session' = [session EXCEPT !.current_page = page]
                     /\ pc' = "sw_load"
                     /\ UNCHANGED <<ret, why, l_page, l_wpage>>
    /\ UNCHANGED <<urlVars, waitVars, locVars, initVars, tabVars, n_contexts, pages, page_url,
                   page_prev, pending_on_page, listeners, op, l_url, l_effect, chk, h_wait,
                   closed_once>>

\* switch_to_tab: bring_to_front and wait_for_load_state return
SwitchToTabReturn ==
    /\ pc = "sw_load"
    /\ Return("ok", "")
    /\ UNCHANGED <<urlVars, waitVars, locVars, initVars, tabVars, session, n_contexts, pages,
                   page_url, page_prev, pending_on_page, listeners, op, l_url, l_idx, l_effect,
                   chk, h_wait, closed_once>>

\* create_new_tab(url): the allowlist check on the argument
CreateNewTabCheck ==
    /\ pc = "tab_check"
    /\ IF l_url # NoUrl /\ ~IsUrlAllowed(allowed_domains, l_url)
       THEN Return("BrowserError", "not_allowed")
       ELSE /\ pc' = "tab_new"
            /\ UNCHANGED <<ret, why, l_page, l_wpage>>
    /\ UNCHANGED <<urlVars, waitVars, locVars, initVars, tabVars, session, n_contexts, pages,
                   page_url, page_prev, pending_on_page, listeners, op, l_url, l_idx, l_effect,
                   chk, h_wait, closed_once>>

\* create_new_tab: new_page = context.new_page(); session.current_page = new_page
CreateNewTabPage ==
    /\ pc = "tab_new"
    /\ session.context # 0
    /\ FreshIds # {}
    /\ pages' = Append(pages, FreshId)
    /\ page_url' = [page_url EXCEPT ![FreshId] = Blank]
    /\ page_prev' = [page_prev EXCEPT ![FreshId] = NoUrl]
    /\ session' = [session EXCEPT !.current_page = FreshId]
    /\ pc' = "tab_load"
    /\ UNCHANGED <<urlVars, waitVars, locVars, initVars, tabVars, n_contexts, pending_on_page,
                   listeners, op, ret, why, l_page, l_url, l_idx, l_wpage, l_effect, chk,
                   h_wait, closed_once>>

\* create_new_tab: page = get_current_page(); page.goto(url) if a url was given
CreateNewTabGoto ==
    /\ pc = "tab_load"
    /\ session.context # 0
    /\ IF l_url = NoUrl
       THEN /\ Return("ok", "")
            /\ UNCHANGED <<page_url, page_prev>>
       ELSE IF PageOpen(session.current_page)
       THEN /\ \E landed \in Lands(l_url) : Goto(session.current_page, landed)
            /\ pc' = "wait_enter"
            /\ l_page' = session.current_page
            /\ UNCHANGED <<ret, why, l_wpage>>
       ELSE /\ Return("Exception", "engine")
            /\ UNCHANGED <<page_url, page_prev>>
    /\ UNCHANGED <<urlVars, waitVars, locVars, initVars, tabVars, session, n_contexts, pages,
                   pending_on_page, listeners, op, l_url, l_idx, l_effect, chk, h_wait,
                   closed_once>>

\* create_new_tab(url)
CreateNewTab == CreateNewTabCheck \/ CreateNewTabPage \/ CreateNewTabGoto

Subscriptions(page) == {<<page, "request">>, <<page, "response">>}

\* _wait_for_stable_network: page = get_current_page(); page.on(...) twice
WaitBegin ==
    /\ pc = "wait_enter"
    /\ session.context # 0
    /\ l_wpage' = session.current_page
    /\ listeners' = listeners \cup Subscriptions(session.current_page)
    /\ pc' = "settle"
    /\ UNCHANGED <<urlVars, waitVars, locVars, initVars, tabVars, session, n_contexts, pages,
                   page_url, page_prev, pending_on_page, op, ret, why, l_page, l_url, l_idx,
                   l_effect, chk, h_wait, closed_once>>

\* the page the finally block removes the listeners from: the local `page`
ListenerPageCurrent == session.current_page
ListenerPage == l_wpage

\* a variant of the definition below that lets the failure through
SettleFailurePropagates == "raise"
\* what `except Exception` of _wait_for_page_and_frames_load (lines 482-484) does with
\* a failure of the settle wait: it warns and goes on to the minimum wait, past the
\* URL check
SettleFailureHandling == "wait_sleep"

\* _wait_for_stable_network leaves its loop (idle, timeout, an exception of the engine,
\* or the task was cancelled in asyncio.sleep) through the finally block
WaitEnd(how) ==
    /\ pc = "settle"
    /\ listeners' = listeners \ Subscriptions(ListenerPage)
    /\ h_wait' = [page |-> l_wpage, how |-> how, current |-> session.current_page]
    /\ IF how = "cancelled" \/ (how = "failed" /\ SettleFailureHandling = "raise")
       THEN Return(IF how = "cancelled" THEN "CancelledError" ELSE "Exception", how)
       ELSE /\ pc' = IF how = "failed" THEN SettleFailureHandling ELSE "wait_check"
            /\ l_wpage' = 0
            /\ UNCHANGED <<ret, why, l_page>>
    /\ UNCHANGED <<urlVars, waitVars, locVars, initVars, tabVars, session, n_contexts, pages,
                   page_url, page_prev, pending_on_page, op, l_url, l_idx, l_effect, chk,
                   closed_once>>

\* _wait_for_page_and_frames_load: page = get_current_page();
\* _check_and_handle_navigation(page)
WaitCheck ==
    /\ pc = "wait_check"
    /\ session.context # 0
    /\ \/ CheckDenied(session.current_page)
       \/ /\ CheckPassed(session.current_page)
          /\ pc' = "wait_sleep"
          /\ UNCHANGED <<ret, why, l_page, l_wpage>>
    /\ UNCHANGED <<urlVars, waitVars, locVars, initVars, tabVars, session, n_contexts, pages,
                   pending_on_page, listeners, op, l_url, l_idx, l_effect, closed_once, h_wait>>

\* _wait_for_page_and_frames_load: the sleep up to the minimum wait is over
WaitReturn ==
    /\ pc = "wait_sleep"
    /\ IF op = "get_state"
       THEN \* get_state goes on with _update_state
            /\ pc' = "us_probe"
            /\ UNCHANGED <<ret, why, l_page, l_wpage>>
       ELSE Return("ok", "")
    /\ UNCHANGED <<urlVars, waitVars, locVars, initVars, tabVars, session, n_contexts, pages,
                   page_url, page_prev, pending_on_page, listeners, op, l_url, l_idx, l_effect,
                   chk, h_wait, closed_once>>

\* _wait_for_page_and_frames_load()
WaitForPageAndFramesLoad ==
    \/ WaitBegin
    \/ \E how \in {"idle", "timeout", "failed", "cancelled"} : WaitEnd(how)
    \/ WaitCheck
    \/ WaitReturn

\* _click_element_node (element without highlight index): page = get_current_page();
\* get_locate_element returns the element or None
ClickLocate ==
    /\ pc = "click"
    /\ session.context # 0
    /\ \E found \in BOOLEAN :
          IF found /\ PageOpen(session.current_page)
          THEN /\ l_page' = session.current_page
               /\ pc' = "click_do"
               /\ UNCHANGED <<ret, why, l_wpage>>
          ELSE Return("Exception", "not_found")
    /\ UNCHANGED <<urlVars, waitVars, locVars, initVars, tabVars, session, n_contexts, pages,
                   page_url, page_prev, pending_on_page, listeners, op, l_url, l_idx, l_effect,
                   chk, h_wait, closed_once>>

\* element.click() (or the scripted click after it failed): the page stays, navigates,
\* opens a popup, or both clicks fail
ClickDo ==
    /\ pc = "click_do"
    /\ \/ /\ l_effect' = "none"
          /\ pc' = "click_load"
          /\ UNCHANGED <<pages, page_url, page_prev, pending_on_page, ret, why, l_page,
                         l_wpage>>
       \/ /\ l_effect' = "navigate"
          /\ \E u \in WebUrls : Goto(l_page, u)
          /\ pc' = "click_load"
          /\ UNCHANGED <<pages, pending_on_page, ret, why, l_page, l_wpage>>
       \/ /\ l_effect' = "popup"
          /\ FreshIds # {}
          /\ pages' = Append(pages, FreshId)
          /\ \E u \in WebUrls : page_url' = [page_url EXCEPT ![FreshId] = u]
          /\ page_prev' = [page_prev EXCEPT ![FreshId] = NoUrl]
          /\ pending_on_page' = pending_on_page \cup {FreshId}
          /\ pc' = "click_load"
          /\ UNCHANGED <<ret, why, l_page, l_wpage>>
       \/ /\ l_effect' = "failed"
          /\ Return("Exception", "engine")
          /\ UNCHANGED <<pages, page_url, page_prev, pending_on_page>>
    /\ UNCHANGED <<urlVars, waitVars, locVars, initVars, tabVars, session, n_contexts,
                   listeners, op, l_url, l_idx, chk, h_wait, closed_once>>

\* _click_element_node: wait_for_load_state returned; _check_and_handle_navigation(page)
ClickCheck ==
    /\ pc = "click_load"
    /\ \/ CheckDenied(l_page)
       \/ /\ CheckPassed(l_page)
          /\ Return("ok", "")
    /\ UNCHANGED <<urlVars, waitVars, locVars, initVars, tabVars, session, n_contexts, pages,
                   pending_on_page, listeners, op, l_url, l_idx, l_effect, closed_once, h_wait>>

\* _click_element_node(element_node)
ClickElementNode == ClickLocate \/ ClickDo \/ ClickCheck

\* close_current_tab(): page.close(), then switch_to_tab(0) if a page is left
CloseCurrentTab ==
    /\ pc = "cct"
    /\ session.context # 0
    /\ LET closed == session.current_page
           left == Without(pages, closed)
           switched == left # << >> /\ IsUrlAllowed(allowed_domains, page_url[left[1]])
       IN  /\ pages' = left
           /\ pending_on_page' = pending_on_page \ {closed}
           /\ crashed' = crashed \ {closed}
           /\ IF left = << >>
              THEN /\ Return("ok", "")
                   /\ UNCHANGED session
              ELSE IF ~IsUrlAllowed(allowed_domains, page_url[left[1]])
              THEN /\ Return("BrowserError", "not_allowed")
                   /\ UNCHANGED session
              ELSE /\ session' = [session EXCEPT !.current_page = left[1]]
                   /\ Return("ok", "")
           \* a closed page nothing refers to any more is forgotten
           /\ IF switched
              THEN /\ page_url' = [page_url EXCEPT ![closed] = NoUrl]
                   /\ page_prev' = [page_prev EXCEPT ![closed] = NoUrl]
              ELSE UNCHANGED <<page_url, page_prev>>
    /\ UNCHANGED <<urlVars, waitVars, locVars, initVars, current_state, h_close, h_state,
                   n_contexts, listeners, op, l_url, l_idx, l_effect, chk, h_wait, closed_once>>

Next ==
    \/ \E o \in Operations, u \in UrlArgs \cup {NoUrl}, i \in IndexArgs : Call(o, u, i)
    \/ InitializeSession
    \/ GetSession
    \/ Close
    \/ NavigateTo
    \/ GoBack
    \/ SwitchToTab
    \/ SwitchToTabReturn
    \/ CreateNewTab
    \/ WaitForPageAndFramesLoad
    \/ ClickElementNode
    \/ CloseCurrentTab
    \/ \E p \in PageIds : OnPage(p)

Spec == InitSpec /\ [][Next]_vars

(***************************************************************************)
(* SpecTabs: one BrowserContext without allowlist, used by one agent task  *)
(* that opens, switches and closes tabs, refreshes the state (get_state    *)
(* with use_vision = False) and resets the context, while pages crash or   *)
(* are closed from outside between any two steps of the task.              *)
(***************************************************************************)
\* ids the engine gives its pages in SpecTabs
MaxTabs == 3

TabIds == 1..MaxTabs

\* the operations called in SpecTabs
TabOperations ==
    {"get_session", "close", "switch_to_tab", "create_new_tab", "close_current_tab",
     "get_state", "reset_context"}

InitTabs ==
    /\ UrlIdle
    /\ allowed_domains = NoAllowlist
    /\ WaitIdle
    /\ LocateIdle
    /\ CreationIdle
    /\ SessionIdleOver(TabIds)

\* the engine answers a call on page p (page.evaluate, page.title): the page is open
\* and its renderer has not crashed
Responsive(p) == PageOpen(p) /\ p \notin crashed

Last(seq) == seq[Len(seq)]

\* the BrowserState _update_state builds from its local page p, with the screenshot
\* of page shot (0: use_vision is False, screenshot None)
Snapshot(p, shot) ==
    BrowserState(page_url[p], SelectorMap("elements", page_url[p]), Len(pages),
                 IF shot = 0 THEN "none" ELSE "image", shot \in {0, p}, session.context)

\* use_vision of the running call: an argument of get_state; the refresh inside
\* _input_text_element_node passes none
UseVision == op = "get_state" /\ l_idx = 1

\* _update_state ends with r for its caller: get_state returns the result or lets the
\* exception through; _input_text_element_node goes on after the refresh, and wraps
\* any exception in Exception (line 911)
UpdateStateEnds(r, w) ==
    IF op = "get_state" THEN Return(r, w)
    ELSE IF r = "ok"
    THEN /\ pc' = "input_locate"
         /\ l_page' = 0
         /\ UNCHANGED <<ret, why, l_wpage>>
    ELSE Return("Exception", "input_failed")

\* _update_state, lines 606-622: the liveness probe page.evaluate('1'); when it throws,
\* the current page becomes context.pages[-1], whose title is then asked for the log,
\* or BrowserError is raised if no page is left
UpdateStateProbe ==
    /\ pc = "us_probe"
    /\ session.context # 0
    /\ IF Responsive(session.current_page)
       THEN /\ l_page' = session.current_page
            /\ pc' = "us_extract"
            /\ h_state' = [h_state EXCEPT !.called = TRUE, !.probe = "ok"]
            /\ UNCHANGED <<session, ret, why, l_wpage>>
       ELSE /\ h_state' = [h_state EXCEPT !.called = TRUE, !.probe = "threw"]
            /\ IF pages # << >>
               THEN /\ session' = [session EXCEPT !.current_page = Last(pages)]
                    /\ IF Responsive(Last(pages))
                       THEN /\ l_page' = Last(pages)
                            /\ pc' = "us_extract"
                            /\ UNCHANGED <<ret, why, l_wpage>>
                       ELSE \* page.title() at line 620 throws, outside any try
                            UpdateStateEnds("Exception", "engine")
               ELSE /\ UpdateStateEnds("BrowserError", "browser_closed")
                    /\ UNCHANGED session
    /\ UNCHANGED <<urlVars, waitVars, locVars, initVars, current_state, crashed, h_close,
                   n_contexts, pages, page_url, page_prev, pending_on_page, listeners, op,
                   l_url, l_idx, l_effect, chk, h_wait, closed_once>>

\* hasattr(self, 'current_state')
HasCurrentState == current_state # NoState

\* the page take_screenshot() photographs: it asks get_current_page() again
ScreenshotPage == session.current_page

\* the extraction on the local page p can succeed: the page answers, so does every
\* open page get_tabs_info asks for its title, and so does the page of the screenshot
CanExtract(p) ==
    /\ Responsive(p)
    /\ crashed = {}
    /\ UseVision => Responsive(ScreenshotPage)

\* the caller keeps the state _update_state returned: get_state assigns it to
\* session.cached_state (line 596), _input_text_element_node drops it (line 897)
Kept(state) ==
    IF op = "get_state" THEN [session EXCEPT !.cached_state = state] ELSE session

\* _update_state, lines 624-655, with what its caller does with the result: the
\* snapshot is built and kept in self.current_state, or the extraction fails and
\* self.current_state is returned if the attribute exists
UpdateStateExtract ==
    /\ pc = "us_extract"
    /\ session.context # 0
    /\ \E fate \in Fates :
          IF fate = "ok" /\ CanExtract(l_page)
          THEN LET state == Snapshot(l_page, IF UseVision THEN ScreenshotPage ELSE 0)
               IN  /\ h_state' = [h_state EXCEPT !.extraction = "ok"]
                   /\ current_state' = state
                   /\ session' = Kept(state)
                   /\ UpdateStateEnds("ok", "")
          ELSE /\ h_state' = [h_state EXCEPT !.extraction = "failed"]
               /\ UNCHANGED current_state
               /\ IF HasCurrentState
                  THEN /\ session' = Kept(current_state)
                       /\ UpdateStateEnds("ok", "")
                  ELSE /\ UpdateStateEnds("Exception", "engine")
                       /\ UNCHANGED session
    /\ UNCHANGED <<urlVars, waitVars, locVars, initVars, crashed, h_close, n_contexts, pages,
                   page_url, page_prev, pending_on_page, listeners, op, l_url, l_idx, l_effect,
                   chk, h_wait, closed_once>>

\* _update_state()
UpdateState == UpdateStateProbe \/ UpdateStateExtract

\* the history of a snapshot that reset_context has outlived
OutlivedByReset(state) ==
    IF state = NoState THEN NoState ELSE [state EXCEPT !.h_stale = TRUE]

\* a variant of the definition below that leaves the cached snapshot as it is
ResetCachedStateKept == session.cached_state
\* reset_context, line 1083: session.cached_state = self._get_initial_state()
ResetCachedState == InitialState(NoUrl)

\* reset_context(): every open page is closed, the cached snapshot is replaced and a
\* new page becomes the current page
ResetContext ==
    /\ pc = "reset"
    /\ session.context # 0
    /\ LET new == CHOOSE p \in DOMAIN page_url : \A q \in DOMAIN page_url : p <= q
       IN  /\ pages' = <<new>>
           /\ page_url' = [p \in DOMAIN page_url |-> IF p = new THEN Blank ELSE NoUrl]
           /\ page_prev' = [p \in DOMAIN page_prev |-> NoUrl]
           /\ session' = [session EXCEPT !.cached_state = ResetCachedState,
                                         !.current_page = new]
    /\ current_state' = OutlivedByReset(current_state)
    /\ crashed' = {}
    /\ pending_on_page' = {}
    /\ h_state' = [h_state EXCEPT !.pages_closed = Len(pages)]
    /\ Return("ok", "")
    /\ UNCHANGED <<urlVars, waitVars, locVars, initVars, h_close, n_contexts, listeners, op,
                   l_url, l_idx, l_effect, chk, h_wait, closed_once>>

\* the renderer of open page p crashes: the page stays in context.pages
PageCrashes(p) ==
    /\ pc # "ready"
    /\ PageOpen(p)
    /\ p \notin crashed
    /\ crashed' = crashed \cup {p}
    /\ UNCHANGED <<urlVars, waitVars, locVars, initVars, current_state, h_close, h_state,
                   session, n_contexts, pages, page_url, page_prev, pending_on_page, listeners,
                   pc, op, ret, why, l_page, l_url, l_idx, l_wpage, l_effect, chk, h_wait,
                   closed_once>>

\* open page p is closed from outside (by the user, by its own script)
PageClosed(p) ==
    /\ pc # "ready"
    /\ PageOpen(p)
    /\ pages' = Without(pages, p)
    /\ crashed' = crashed \ {p}
    /\ IF p \in {session.current_page, l_page, l_wpage}
       THEN UNCHANGED <<page_url, page_prev>>
       ELSE /\ page_url' = [page_url EXCEPT ![p] = NoUrl]
            /\ page_prev' = [page_prev EXCEPT ![p] = NoUrl]
    /\ UNCHANGED <<urlVars, waitVars, locVars, initVars, current_state, h_close, h_state,
                   session, n_contexts, pending_on_page, listeners, pc, op, ret, why, l_page,
                   l_url, l_idx, l_wpage, l_effect, chk, h_wait, closed_once>>

NextTabs ==
    \/ \E o \in TabOperations \ {"get_state"}, i \in IndexArgs : Call(o, NoUrl, i)
    \/ Call("get_state", NoUrl, 0)
    \/ InitializeSession
    \/ GetSession
    \/ Close
    \/ SwitchToTab
    \/ SwitchToTabReturn
    \/ CreateNewTab
    \/ WaitForPageAndFramesLoad
    \/ CloseCurrentTab
    \/ UpdateState
    \/ ResetContext
    \/ \E p \in TabIds : PageCrashes(p)
    \/ \E p \in TabIds : PageClosed(p)

SpecTabs == InitTabs /\ [][NextTabs]_vars

(***************************************************************************)
(* SpecRefresh: one BrowserContext with an allowlist, driven by one agent  *)
(* task that navigates, clicks, types, refreshes the state (get_state with *)
(* and without use_vision) and resets the context, while the new-page      *)
(* callback of a popup runs between any two steps of the task.             *)
(***************************************************************************)
\* the operations called in SpecRefresh
RefreshOperations ==
    {"navigate_to", "click_element_node", "get_state", "input_text_element_node",
     "reset_context"}

InitRefresh ==
    /\ UrlIdle
    /\ allowed_domains = ConfiguredAllowlist
    /\ WaitIdle
    /\ LocateIdle
    /\ CreationIdle
    /\ SessionIdle

\* _input_text_element_node (element with a highlight index) after the refresh of
\* line 897: page = get_current_page(); get_locate_element; fill and type; any
\* exception is wrapped in Exception (line 911)
InputTextElementNode ==
    /\ pc = "input_locate"
    /\ session.context # 0
    /\ \E fate \in Fates :
          IF fate = "ok" /\ PageOpen(session.current_page)
          THEN Return("ok", "")
          ELSE Return("Exception", "input_failed")
    /\ UNCHANGED <<urlVars, waitVars, locVars, initVars, tabVars, session, n_contexts, pages,
                   page_url, page_prev, pending_on_page, listeners, op, l_url, l_idx, l_effect,
                   chk, h_wait, closed_once>>

NextRefresh ==
    \/ \E o \in RefreshOperations, u \in UrlArgs \cup {NoUrl}, i \in {0, 1} : Call(o, u, i)
    \/ InitializeSession
    \/ NavigateTo
    \/ ClickElementNode
    \/ WaitForPageAndFramesLoad
    \/ UpdateState
    \/ InputTextElementNode
    \/ ResetContext
    \/ \E p \in PageIds : OnPage(p)

SpecRefresh == InitRefresh /\ [][NextRefresh]_vars

(***************************************************************************)
(* SpecInit: get_session called by up to MaxTasks tasks of one event loop.  *)
(* _initialize_session is cut at its awaits: the context creation with the  *)
(* cookie load of _create_context, and context.new_page(), whose page event *)
(* the engine emits before the await returns.  A page is named by the       *)
(* number of the context it was opened in.                                  *)
(***************************************************************************)

\* config.cookies_file unset; set but no such file; a file json.load and
\* context.add_cookies accept; a file one of them rejects
CookieFiles == {"unset", "absent", "valid", "corrupt"}

InitCreation ==
    /\ UrlIdle
    /\ allowed_domains = NoAllowlist
    /\ WaitIdle
    /\ SessionIdle
    /\ LocateIdle
    /\ t_pc = [t \in Tasks |-> "idle"]
    /\ t_context = [t \in Tasks |-> 0]
    /\ t_page = [t \in Tasks |-> 0]
    /\ t_ret = [t \in Tasks |-> NoReturn]
    /\ cookies_file \in CookieFiles

\* `if self.config.cookies_file and os.path.exists(...)`: open, json.load and
\* add_cookies run outside any try; what they raise leaves _create_context
CookieLoadRaises == cookies_file = "corrupt"

\* `if self.session is None` as get_session evaluates it
SessionIsNone == session.context = 0

\* get_session: `if self.session is None: return await self._initialize_session()`,
\* else `return self.session`; the call stays suspended in get_playwright_browser
GetSessionCall(t) ==
    /\ t_pc[t] \in {"idle", "done"}
    /\ IF SessionIsNone
       THEN /\ t_pc' = [t_pc EXCEPT ![t] = "create"]
            /\ t_ret' = [t_ret EXCEPT ![t] = NoReturn]
       ELSE /\ t_pc' = [t_pc EXCEPT ![t] = "done"]
            /\ t_ret' = [t_ret EXCEPT ![t] = [raised |-> FALSE, context |-> session.context]]
    /\ t_context' = [t_context EXCEPT ![t] = 0]
    /\ t_page' = [t_page EXCEPT ![t] = 0]
    /\ UNCHANGED <<urlVars, waitVars, sessVars, locVars, cookies_file>>

\* _create_context: browser.new_context, then the cookie load
CreateContext(t) ==
    /\ t_pc[t] = "create"
    /\ n_contexts < MaxContexts
    /\ n_contexts' = n_contexts + 1
    /\ IF CookieLoadRaises
       THEN /\ t_pc' = [t_pc EXCEPT ![t] = "done"]
            /\ t_ret' = [t_ret EXCEPT ![t] = [raised |-> TRUE, context |-> 0]]
            /\ UNCHANGED t_context
       ELSE /\ t_pc' = [t_pc EXCEPT ![t] = "new_page"]
            /\ t_context' = [t_context EXCEPT ![t] = n_contexts + 1]
            /\ UNCHANGED t_ret
    /\ UNCHANGED <<urlVars, waitVars, locVars, session, pages, page_url, page_prev,
                   pending_on_page, listeners, pc, op, ret, why, l_page, l_url, l_idx,
                   l_wpage, l_effect, chk, h_wait, closed_once, tabVars, t_page,
                   cookies_file>>

\* _add_new_page_listener(context), then the engine opens the page that
\* context.new_page() asked for and emits its 'page' event
NewPageOpens(t) ==
    /\ t_pc[t] = "new_page"
    /\ t_page' = [t_page EXCEPT ![t] = t_context[t]]
    /\ pending_on_page' = pending_on_page \cup {t_context[t]}
    /\ t_pc' = [t_pc EXCEPT ![t] = "assign"]
    /\ UNCHANGED <<urlVars, waitVars, locVars, session, n_contexts, pages, page_url,
                   page_prev, listeners, pc, op, ret, why, l_page, l_url, l_idx, l_wpage,
                   l_effect, chk, h_wait, closed_once, tabVars, t_context, t_ret,
                   cookies_file>>

\* `page = await context.new_page()` returns; self.session = BrowserSession(...)
NewPageReturns(t) ==
    /\ t_pc[t] = "assign"
    /\ session' = [context |-> t_context[t],
                   current_page |-> t_page[t],
                   cached_state |-> InitialState(Blank)]
    /\ t_ret' = [t_ret EXCEPT ![t] = [raised |-> FALSE, context |-> t_context[t]]]
    /\ t_pc' = [t_pc EXCEPT ![t] = "done"]
    /\ UNCHANGED <<urlVars, waitVars, locVars, n_contexts, pages, page_url, page_prev,
                   pending_on_page, listeners, pc, op, ret, why, l_page, l_url, l_idx,
                   l_wpage, l_effect, chk, h_wait, closed_once, tabVars, t_context, t_page,
                   cookies_file>>

NextCreation ==
    \/ \E t \in Tasks : GetSessionCall(t)
    \/ \E t \in Tasks : CreateContext(t)
    \/ \E t \in Tasks : NewPageOpens(t)
    \/ \E t \in Tasks : NewPageReturns(t)
    \/ \E p \in PageIds : OnPage(p)

SpecInit == InitCreation /\ [][NextCreation]_vars

(***************************************************************************)
(* SpecLocate: get_locate_element applied to one DOMElementNode, and with  *)
(* it _enhanced_css_selector_for_element applied to the element and to     *)
(* each of its iframe ancestors.  The element is drawn from ElementInputs; *)
(* current_frame starts as the current page (get_current_page, see Spec).  *)
(* A selector is the text the code builds, a string.                       *)
(***************************************************************************)
\* longest chain of ancestors of the element drawn in SpecLocate
MaxDepth == 3

\* an attribute value or a text: a str (its characters), an int, or None
StrValue(chars) == [kind |-> "str", chars |-> chars, n |-> 0]

IntValue(n) == [kind |-> "int", chars |-> << >>, n |-> n]

NoneValue == [kind |-> "none", chars |-> << >>, n |-> 0]

\* bool(value)
Truthy(value) ==
    \/ value.kind = "str" /\ value.chars # << >>
    \/ value.kind = "int" /\ value.n # 0

\* one entry of the dict element.attributes
Attr(name, value) == [name |-> name, value |-> value]

\* one part of xpath.split('/'): base is the text before the first "[", indices are
\* the texts between each "[" and its "]"
Step(base, indices) == [base |-> base, indices |-> indices]

\* element.xpath: a str (its parts), None, or a value that is no str
XPath(steps) == [kind |-> "str", steps |-> steps]

NoXPath == [kind |-> "none", steps |-> << >>]

IntXPath == [kind |-> "int", steps |-> << >>]

\* the result of a call that returns a text or raises
Text(text) == [raised |-> FALSE, text |-> text]

Raised == [raised |-> TRUE, text |-> ""]

\* ''.join(strs)
RECURSIVE Concat(_)
Concat(strs) == IF strs = << >> THEN "" ELSE Head(strs) \o Concat(Tail(strs))

\* sep.join(strs)
RECURSIVE Join(_, _)
Join(sep, strs) ==
    IF strs = << >> THEN ""
    ELSE IF Len(strs) = 1 THEN strs[1]
    ELSE strs[1] \o sep \o Join(sep, Tail(strs))

\* idx.isdigit() and int(idx) for the index texts of the model
DigitTexts == [t \in {"1", "2"} |-> IF t = "1" THEN 1 ELSE 2]

\* what one index adds to base_part (lines 733-744)
IndexSuffix(idx) ==
    IF idx \in DOMAIN DigitTexts
    THEN ":nth-of-type(" \o ToString((DigitTexts[idx] - 1) + 1) \o ")"
    ELSE IF idx = "last()" THEN ":last-of-type"
    ELSE IF idx = "position()>1" THEN ":nth-of-type(n+2)"
    ELSE ""

\* `if not part: continue`
NonEmptyPart(step) == step.base # "" \/ step.indices # << >>

\* one entry of css_parts (lines 724-750)
CssPart(step) ==
    IF step.indices # << >>
    THEN step.base \o Concat([i \in 1..Len(step.indices) |-> IndexSuffix(step.indices[i])])
    ELSE step.base

\* _convert_simple_xpath_to_css_selector(xpath): '' for None and for '', the parts
\* joined by ' > ' for a str; a value without lstrip raises AttributeError
ConvertSimpleXpathToCssSelector(xpath) ==
    IF xpath.kind = "none" \/ (xpath.kind = "str" /\ xpath.steps = << >>) THEN Text("")
    ELSE IF xpath.kind # "str" THEN Raised
    ELSE LET parts == SelectSeq(xpath.steps, NonEmptyPart)
         IN  Text(Join(" > ", [i \in 1..Len(parts) |-> CssPart(parts[i])]))

Whitespace == {" ", "\n", "\t", "\r"}

\* the characters that make a value be matched with *= (line 841), but for the
\* backquote, which no string of the model holds
SpecialChars == {"\"", "'", "<", ">", "\n", "\r", "\t"}

\* [a-zA-Z_] and [a-zA-Z0-9_-] over the characters of the model
NameStartChars == {"a", "b", "f", "_"}

NameChars == NameStartChars \cup {"1", "2", "9", "-"}

\* str.split(): the words between runs of whitespace (word: the word being read)
RECURSIVE SplitWords(_, _)
SplitWords(s, word) ==
    IF s = << >> THEN (IF word = << >> THEN << >> ELSE <<word>>)
    ELSE IF Head(s) \in Whitespace
    THEN (IF word = << >> THEN << >> ELSE <<word>>) \o SplitWords(Tail(s), << >>)
    ELSE SplitWords(Tail(s), Append(word, Head(s)))

\* valid_class_name_pattern.match(class_name)
ValidClassName(w) ==
    /\ w # << >>
    /\ w[1] \in NameStartChars
    /\ \A i \in 2..Len(w) : w[i] \in NameChars

\* re.sub(r'\s+', ' ', value)
RECURSIVE CollapseWhitespace(_, _)
CollapseWhitespace(s, in_run) ==
    IF s = << >> THEN << >>
    ELSE IF Head(s) \in Whitespace
    THEN (IF in_run THEN << >> ELSE <<" ">>) \o CollapseWhitespace(Tail(s), TRUE)
    ELSE <<Head(s)>> \o CollapseWhitespace(Tail(s), FALSE)

\* str.strip()
RECURSIVE Strip(_)
Strip(s) ==
    IF s = << >> THEN << >>
    ELSE IF Head(s) \in Whitespace THEN Strip(Tail(s))
    ELSE IF s[Len(s)] \in Whitespace THEN Strip(SubSeq(s, 1, Len(s) - 1))
    ELSE s

\* collapsed_value.replace('"', '\\"')
EscapeQuotes(s) == [i \in 1..Len(s) |-> IF s[i] = "\"" THEN "\\\"" ELSE s[i]]

SAFE_ATTRIBUTES ==
    {"id", "name", "type", "value", "placeholder", "aria-label", "aria-labelledby",
     "aria-describedby", "role", "for", "autocomplete", "required", "readonly", "alt",
     "title", "src", "data-testid", "data-id", "data-qa", "data-cy", "href", "target"}

\* attribute.strip() == ''
BlankName(name) == name \in {"", " "}

\* attribute.replace(':', r'\:'), on the names that passed the SAFE_ATTRIBUTES test:
\* none of them holds a ':'
SafeAttribute(name) == name

\* 'class' in element.attributes and element.attributes['class']
HasClass(e) ==
    \E i \in 1..Len(e.attributes) :
        e.attributes[i].name = "class" /\ Truthy(e.attributes[i].value)

ClassValue(e) ==
    e.attributes[CHOOSE i \in 1..Len(e.attributes) : e.attributes[i].name = "class"].value

\* lines 770-789: '.name' for every valid class name; a truthy value without split
\* raises AttributeError
ClassSelector(e) ==
    IF ~HasClass(e) THEN Text("")
    ELSE IF ClassValue(e).kind # "str" THEN Raised
    ELSE LET classes == SelectSeq(SplitWords(ClassValue(e).chars, << >>), ValidClassName)
         IN  Text(Concat([i \in 1..Len(classes) |-> "." \o Concat(classes[i])]))

\* the attributes the loop of lines 825-849 does not skip
Selected(a) == a.name # "class" /\ ~BlankName(a.name) /\ a.name \in SAFE_ATTRIBUTES

\* lines 838-849 for one attribute: `char in value` raises TypeError on a value that
\* is no str
AttributeSelector(a) ==
    IF a.value.kind = "str" /\ a.value.chars = << >>
    THEN Text("[" \o SafeAttribute(a.name) \o "]")
    ELSE IF a.value.kind # "str" THEN Raised
    ELSE IF \E i \in 1..Len(a.value.chars) : a.value.chars[i] \in SpecialChars
    THEN Text("[" \o SafeAttribute(a.name) \o "*=\""
              \o Concat(EscapeQuotes(Strip(CollapseWhitespace(a.value.chars, FALSE))))
              \o "\"]")
    ELSE Text("[" \o SafeAttribute(a.name) \o "=\"" \o Concat(a.value.chars) \o "\"]")

\* the try block of _enhanced_css_selector_for_element (lines 767-851)
Synthesis(e) ==
    LET base == ConvertSimpleXpathToCssSelector(e.xpath)
        class == ClassSelector(e)
        attrs == SelectSeq(e.attributes, Selected)
        parts == [i \in 1..Len(attrs) |-> AttributeSelector(attrs[i])]
    IN  IF base.raised \/ class.raised \/ \E i \in 1..Len(parts) : parts[i].raised
        THEN Raised
        ELSE Text(base.text \o class.text \o Concat([i \in 1..Len(parts) |-> parts[i].text]))

\* the fallback selector of lines 853-856
FallbackSelector(e) ==
    (IF e.tag_name = "" THEN "*" ELSE e.tag_name)
        \o "[highlight_index='" \o ToString(e.highlight_index) \o "']"

\* an except clause that would let the exception through
ExceptReraises(e) == Raised

\* `except Exception:` of line 853
ExceptFallback(e) == Text(FallbackSelector(e))

\* _enhanced_css_selector_for_element(element)
EnhancedCssSelectorForElement(e) ==
    IF Synthesis(e).raised THEN ExceptFallback(e) ELSE Synthesis(e)

\* ---- the elements drawn
HtmlBody == <<Step("html", << >>), Step("body", << >>)>>

Node(tag_name, highlight_index, xpath, attributes) ==
    [tag_name |-> tag_name, highlight_index |-> highlight_index, xpath |-> xpath,
     attributes |-> attributes]

\* the ancestors an element of the model can have: a div, two iframes with different
\* selectors, and an iframe whose selector is the fallback
AncestorInputs ==
    {Node("div", 0, XPath(HtmlBody \o <<Step("div", <<"1">>)>>),
          <<Attr("class", StrValue(<<"a", " ", "b">>))>>),
     Node("iframe", 1, XPath(HtmlBody \o <<Step("iframe", <<"1">>)>>),
          <<Attr("id", StrValue(<<"f", "1">>))>>),
     Node("iframe", 2, XPath(HtmlBody \o <<Step("div", << >>), Step("iframe", <<"last()">>)>>),
          <<Attr("name", StrValue(<<"f", "2">>))>>),
     Node("iframe", 3, XPath(HtmlBody \o <<Step("iframe", <<"2">>)>>),
          <<Attr("src", NoneValue)>>)}

XPathInputs ==
    {XPath(HtmlBody \o <<Step("", << >>), Step("a", <<"position()>1", "@id">>)>>),
     XPath(<< >>), NoXPath, IntXPath}

AttributeInputs ==
    {<< >>,
     <<Attr("id", StrValue(<<"b">>)), Attr("required", StrValue(<< >>)),
       Attr("onclick", IntValue(7))>>,
     <<Attr("class", StrValue(<<"9", "a", "\n", " ", "b", "-", "1">>)),
       Attr("title", StrValue(<<" ", "a", "\"", "\t", " ", "b", " ">>)),
       Attr(" ", StrValue(<<"a">>))>>,
     <<Attr("class", IntValue(7))>>,
     <<Attr("class", IntValue(0)), Attr("href", StrValue(<<"a">>))>>,
     <<Attr("value", IntValue(7))>>,
     <<Attr("alt", NoneValue)>>}

SeqsOver(S, n) == UNION {[1..k -> S] : k \in 0..n}

ElementInputs ==
    {[tag_name |-> t, highlight_index |-> 5, xpath |-> x, attributes |-> a, parents |-> ps] :
        t \in {"a", ""}, x \in XPathInputs, a \in AttributeInputs,
        ps \in SeqsOver(AncestorInputs, MaxDepth)}

InitLocate ==
    /\ UrlIdle
    /\ allowed_domains = NoAllowlist
    /\ WaitIdle
    /\ SessionIdle
    /\ CreationIdle
    /\ element \in ElementInputs
    /\ loc_pc = "input"
    /\ loc_frames = << >>
    /\ loc_next = << >>
    /\ loc_result = NoLocate

\* list.reverse()
Reversed(seq) == [i \in 1..Len(seq) |-> seq[Len(seq) + 1 - i]]

\* the list left as collected, the nearest ancestor first
NotReversed(parents) == parents

\* lines 868-869: the order in which the collected parents are processed
ProcessingOrder(parents) == Reversed(parents)

IsIframe(node) == node.tag_name = "iframe"

\* lines 861-872: the loop over current.parent collects the ancestors, nearest
\* first; they are reversed and the iframes among them are kept
LocateCollect ==
    /\ loc_pc = "input"
    /\ loc_next' = SelectSeq(ProcessingOrder(element.parents), IsIframe)
    /\ loc_pc' = "frames"
    /\ UNCHANGED <<urlVars, waitVars, sessVars, initVars, element, loc_frames, loc_result>>

\* lines 873-875, one iteration: current_frame = current_frame.frame_locator(selector)
LocateEnterFrame ==
    /\ loc_pc = "frames"
    /\ loc_next # << >>
    /\ LET css_selector == EnhancedCssSelectorForElement(Head(loc_next))
       IN  IF css_selector.raised
           THEN /\ loc_result' = [loc_result EXCEPT !.raised = "Exception"]
                /\ loc_pc' = "done"
                /\ UNCHANGED <<loc_frames, loc_next>>
           ELSE /\ loc_frames' = Append(loc_frames, css_selector.text)
                /\ loc_next' = Tail(loc_next)
                /\ UNCHANGED <<loc_pc, loc_result>>
    /\ UNCHANGED <<urlVars, waitVars, sessVars, initVars, element>>

\* how the engine can answer the lookup of lines 879-888: inside a frame locator,
\* element_handle() returns the handle or raises (nothing matches in time, an
\* ancestor iframe's selector does not resolve, a frame is detached); on the page,
\* query_selector returns the handle (and scrolling to it works or raises), returns
\* None, or raises
EngineAnswers(in_frame) ==
    IF in_frame
    THEN {"found", "no_match", "frame_unresolved", "frame_detached"}
    ELSE {"found", "scroll_failed", "no_match", "invalid_selector"}

EngineRaises(in_frame, answer) ==
    \/ answer \in {"frame_unresolved", "frame_detached", "scroll_failed", "invalid_selector"}
    \/ in_frame /\ answer = "no_match"

\* an except clause that would let the engine's exception through
ExceptPropagates == [returned |-> "none", raised |-> "Exception"]

\* lines 889-891: `except Exception` logs and returns None
ExceptReturnsNone == [returned |-> "None", raised |-> "none"]

\* lines 877-891: the selector of the element itself, resolved in current_frame
LocateResolve ==
    /\ loc_pc = "frames"
    /\ loc_next = << >>
    /\ \E answer \in EngineAnswers(loc_frames # << >>) :
          LET css_selector == EnhancedCssSelectorForElement(element)
              outcome ==
                  IF EngineRaises(loc_frames # << >>, answer) THEN ExceptReturnsNone
                  ELSE IF answer = "found" THEN [returned |-> "handle", raised |-> "none"]
                  ELSE [returned |-> "None", raised |-> "none"]
          IN  loc_result' =
                  IF css_selector.raised
                  THEN [loc_result EXCEPT !.raised = "Exception"]
                  ELSE [engine |-> answer, selector |-> css_selector.text,
                        frames |-> loc_frames, returned |-> outcome.returned,
                        raised |-> outcome.raised]
    /\ loc_pc' = "done"
    /\ UNCHANGED <<urlVars, waitVars, sessVars, initVars, element, loc_frames, loc_next>>

NextLocate ==
    \/ LocateCollect
    \/ LocateEnterFrame
    \/ LocateResolve

SpecLocate == InitLocate /\ [][NextLocate]_vars

(***************************************************************************)
(* Claims about _is_url_allowed.                                           *)
(***************************************************************************)
\* the authority has a userinfo part: userinfo@host or userinfo@host:port
HasUserinfo(u) == \E i \in 1..Len(Netloc(u)) : Netloc(u)[i] = "@"

\* the URL's host (RFC 3986): the authority after its last '@', up to the port's ':',
\* lower-cased
UrlHost(u) == Lower(SplitFirst(Suffix(Netloc(u), LastIndex(Netloc(u), "@")), ":"))

\* host is an entry of the allowlist or a strict subdomain of one
HostAllowed(allowed, host) ==
    \E k \in 1..Len(allowed.entries) :
        \/ host = Lower(allowed.entries[k])
        \/ EndsWith(host, <<".">> \o Lower(allowed.entries[k]))

Configured(allowed) == ~allowed.isNone /\ allowed.entries # << >>

\* C1: _is_url_allowed returns true iff there is no allowlist (None or empty) or the
\* URL's host, lower-cased and without its port, equals an entry or ends with
\* '.' + entry.
C1_AllowedIffHostMatches ==
    url_pc = "checked" =>
        (url_result <=> (~Configured(allowed_domains)
                            \/ HostAllowed(allowed_domains, UrlHost(url))))

\* C2: with an allowlist configured, for a URL whose authority carries userinfo the
\* result is decided by the real host alone, whatever the userinfo text is.
C2_UserinfoIgnored ==
    (url_pc = "checked" /\ Configured(allowed_domains) /\ HasUserinfo(url)) =>
        (url_result = HostAllowed(allowed_domains, UrlHost(url)))

\* C2 (the case the claim names): the userinfo starts with an allowed domain, the
\* host is not allowed, and the URL is let through.
C2_UserinfoBypass ==
    /\ url_pc = "checked"
    /\ Configured(allowed_domains)
    /\ HasUserinfo(url)
    /\ ~HostAllowed(allowed_domains, UrlHost(url))
    /\ url_result

\* C1 holds of every URL without userinfo: the divergence is C2's alone.
C1_WithoutUserinfo ==
    (url_pc = "checked" /\ ~HasUserinfo(url)) =>
        (url_result <=> (~Configured(allowed_domains)
                            \/ HostAllowed(allowed_domains, UrlHost(url))))

(***************************************************************************)
(* Claims about _wait_for_stable_network.                                  *)
(***************************************************************************)
\* the wait returned (it was not cancelled)
Returned == w_pc = "idle" /\ w_exit \in {"idle", "timeout"}

C7_Bounded ==
    \* the loop is never left running past the first poll after the maximum wait
    /\ (w_pc = "polling" => now - start_time <= MaxTicks + PollTicks)
    \* once every tracked request has its response and nothing was tracked for the
    \* idle threshold, the poll of that instant has returned
    /\ (w_pc = "polling" /\ next_poll > now =>
            ~(pending_requests = {} /\ h_idle >= IdleTicks))
    \* a return by timeout happens at the first poll after the maximum wait, logged
    /\ (Returned /\ w_exit = "timeout" =>
            w_end - start_time = MaxTicks + PollTicks /\ w_logged)
    \* with a tracked request still without response the return is the timeout
    /\ (Returned /\ pending_requests # {} => w_exit = "timeout")
    \* a wait that ended has returned, by idleness or by timeout
    /\ (w_pc = "idle" /\ w_exit # "none" => Returned /\ ~w_listening)

ResolvedAt == 2 * PollTicks

\* one tracked request, resolved 0.2 s after the start, and no other tracked request
OneRequestResolvedEarly ==
    /\ req_state[1] = "resolved"
    /\ \A r \in Requests : r # 1 => req_state[r] = "unsent"
    /\ last_activity - start_time = ResolvedAt

\* C8: a return before the maximum wait happens only at a poll with an empty pending
\* set and the idle threshold elapsed since last activity; with one tracked request
\* resolved 0.2 s after the start and nothing else, the return is at 1.2 s (within
\* one poll interval), not at the maximum wait.
C8_IdleExitOnlyWhenIdle ==
    /\ (Returned /\ w_end - start_time <= MaxTicks =>
            /\ w_exit = "idle"
            /\ pending_requests = {}
            /\ w_end - last_activity >= IdleTicks)
    /\ (Returned /\ w_exit = "idle" =>
            pending_requests = {} /\ w_end - last_activity >= IdleTicks)
    /\ (Returned /\ OneRequestResolvedEarly =>
            /\ w_exit = "idle"
            /\ w_end - start_time >= ResolvedAt + IdleTicks
            /\ w_end - start_time <= ResolvedAt + IdleTicks + PollTicks)

\* C8's scenario happened: the request resolved at 0.2 s and the wait returned at 1.2 s
C8_ReturnedAfterIdle ==
    /\ Returned
    /\ OneRequestResolvedEarly
    /\ w_exit = "idle"
    /\ w_end - start_time = ResolvedAt + IdleTicks

\* C26: during a settle wait every change of the membership of the pending set sets
\* last activity to the current time: the addition of a tracked request and every
\* removal on a response, the removals of filtered responses (streaming or media,
\* content type not accepted, more than 5 MiB declared) included.
C26_MembershipChangeIsActivity ==
    [][pending_requests' # pending_requests => last_activity' = now']_vars

\* the part of C26 that holds: an addition, and the removal on a response that passes
\* the filters, set last activity to the current time
C26_UnfilteredChangeIsActivity ==
    [][/\ pending_requests' # pending_requests
       /\ \A r \in Requests : req_state'[r] = "filtered" => req_state[r] = "filtered"
       => last_activity' = now']_vars

(***************************************************************************)
(* Claims about the session's operations.                                  *)
(***************************************************************************)
\* an operation has just returned or raised
Ended == pc = "ready" /\ op # "none"

\* the session's current page is open and its URL passes the allowlist
CurrentPageAllowed ==
    /\ session.context # 0
    /\ PageOpen(session.current_page)
    /\ IsUrlAllowed(allowed_domains, page_url[session.current_page])

\* the operation that ended is one of the navigation-causing ones
NavigationCausing ==
    \/ op \in {"navigate_to", "switch_to_tab"}
    \/ op = "create_new_tab" /\ l_url # NoUrl
    \/ op = "click_element_node" /\ l_effect = "navigate"

\* C3: with an allowlist configured, whenever navigate_to, a navigating click,
\* create_new_tab with a URL or switch_to_tab returns normally, the page it made or
\* left current has an allowed URL.
C3_ReturnsOnAllowedPage ==
    (Ended /\ ret = "ok" /\ NavigationCausing) => CurrentPageAllowed

\* C4: with an allowlist configured, navigate_to(url) for a URL that is not allowed
\* raises and navigates nothing: the current page pointer, every page's URL and
\* history, the open pages and the cached snapshot are what they were before the call.
C4_DeniedNavigateChangesNothing ==
    [][(pc = "nav_check" /\ pc' # "nav_check" /\ ~IsUrlAllowed(allowed_domains, l_url)) =>
            /\ pc' = "ready"
            /\ ret' \notin {"ok", "running"}
            /\ UNCHANGED <<session, pages, page_url, page_prev, n_contexts>>]_vars

\* C4's case: navigate_to was denied on an active session whose page had navigated
C4_DeniedOnActiveSession ==
    /\ Ended
    /\ op = "navigate_to"
    /\ ret = "BrowserError"
    /\ why = "not_allowed"
    /\ ~IsUrlAllowed(allowed_domains, l_url)
    /\ session.context # 0
    /\ PageOpen(session.current_page)
    /\ page_url[session.current_page] \in WebUrls

\* C5: every allowlist denial (navigate_to, create_new_tab and switch_to_tab on a
\* disallowed URL, and the post-navigation check) is raised as URLNotAllowedError,
\* not as the generic BrowserError raised for a bad tab index.
C5_DenialIsURLNotAllowedError ==
    (Ended /\ why = "not_allowed") => ret = "URLNotAllowedError"

\* C6: _check_and_handle_navigation(page) on a page whose URL is not allowed calls
\* go_back exactly once and raises URLNotAllowedError, and the go-back acts on the
\* page that was checked; on an allowed URL it neither goes back nor raises.
C6_GoBackOnViolatingPage ==
    chk.called =>
        IF chk.violated
        THEN /\ chk.go_back_calls = 1
             /\ chk.raised = "URLNotAllowedError"
             /\ chk.go_back_on_checked_page
        ELSE /\ chk.go_back_calls = 0
             /\ chk.raised = "none"

\* C6 without its last sentence: one go_back and URLNotAllowedError on a violation,
\* neither on an allowed URL.
C6_OnceThenRaises ==
    chk.called =>
        IF chk.violated
        THEN /\ chk.go_back_calls = 1
             /\ chk.raised = "URLNotAllowedError"
             /\ Ended /\ ret = "URLNotAllowedError"
        ELSE /\ chk.go_back_calls = 0
             /\ chk.raised = "none"

\* C9: while no _wait_for_stable_network call is in progress no settle listener is
\* subscribed on any page, and during a call exactly its two listeners are, on the
\* page it took at entry; so every exit path (idle, timeout, cancellation) removed
\* both from that page, also when the current page was reassigned during the wait.
C9_ListenersRemoved ==
    listeners = IF pc = "settle" THEN Subscriptions(l_wpage) ELSE {}

\* C9's case: a wait ended after the current page was reassigned while it ran
C9_EndedAfterReassignment ==
    /\ h_wait.page # 0
    /\ h_wait.current # h_wait.page
    /\ h_wait.how \in {"timeout", "cancelled"}
    /\ pc # "settle"
    /\ listeners = {}

\* C10: once close() has completed on an active session, no later operation makes a
\* session active again or creates another engine context.
C10_ClosedIsTerminal ==
    closed_once => (session.context = 0 /\ n_contexts = 1)

\* C11: close() is idempotent: a close() called right after a close() raises nothing,
\* saves no cookies, stops no trace and closes no context, and after each of the two
\* calls there is no session.
C11_CloseIdempotent ==
    (Ended /\ op = "close") =>
        /\ ret = "ok"
        /\ session = NoSession
        /\ (h_close.after_close =>
                /\ ~h_close.was_active
                /\ h_close.save_cookies = "none"
                /\ h_close.trace_stop = "none"
                /\ h_close.context_close = "none")

\* C11's case: the second of two close() calls in a row has returned, the first having
\* closed an active session
C11_ClosedTwice ==
    /\ Ended
    /\ op = "close"
    /\ h_close.after_close
    /\ closed_once
    /\ ret = "ok"

\* C12: close() always completes: whatever fails among the cookie save, the trace stop
\* and the context close, it returns without raising and leaves no session, and the
\* context close is attempted also when the trace stop failed.
C12_CloseBestEffort ==
    (Ended /\ op = "close") =>
        /\ ret = "ok"
        /\ session = NoSession
        /\ (h_close.was_active =>
                /\ h_close.save_cookies \in Fates
                /\ h_close.trace_stop \in Fates
                /\ h_close.context_close \in Fates)

\* C12's case: close() returned on an active session with all three steps failing
C12_EverythingFailed ==
    /\ Ended
    /\ op = "close"
    /\ ret = "ok"
    /\ h_close.was_active
    /\ h_close.save_cookies = "failed"
    /\ h_close.trace_stop = "failed"
    /\ h_close.context_close = "failed"

\* the page switch_to_tab(i) names among n open pages, for -n <= i < n
TabAt(i) == IF i >= 0 THEN pages[i + 1] ELSE pages[Len(pages) + i + 1]

\* C13: switch_to_tab(i) with n open pages makes page i (from the end when negative,
\* so the last page for i = -1) current if -n <= i < n and its URL is allowed; for
\* i >= n or i < -n it fails with BrowserError and leaves the current page pointer.
C13_SwitchToTabBounds ==
    [][(pc = "sw" /\ pc' # "sw") =>
            IF l_idx >= Len(pages) \/ l_idx < 0 - Len(pages)
            THEN /\ pc' = "ready"
                 /\ ret' = "BrowserError"
                 /\ session' = session
            ELSE IF IsUrlAllowed(allowed_domains, page_url[TabAt(l_idx)])
            THEN /\ session'.current_page = TabAt(l_idx)
                 /\ ret' = "running"
            ELSE /\ pc' = "ready"
                 /\ ret' \notin {"ok", "running"}
                 /\ session' = session]_vars

(***************************************************************************)
(* Claims about tabs, the refresh and the reset.                           *)
(***************************************************************************)
\* C14: close_current_tab closes the current page and, when other pages remain, makes
\* the last remaining page the current page; when none remains it returns without
\* error and without switching.
C14_SwitchesToLastRemaining ==
    [][(pc = "cct" /\ pc' # "cct") =>
            LET left == Without(pages, session.current_page)
            IN  /\ pages' = left
                /\ pc' = "ready"
                /\ ret' = "ok"
                /\ IF left = << >>
                   THEN session' = session
                   ELSE session'.current_page = Last(left)]_vars

\* C14 with the first remaining page in place of the last: what close_current_tab
\* does when every remaining page passes the allowlist.
C14_SwitchesToFirstRemaining ==
    [][(pc = "cct" /\ pc' # "cct") =>
            LET left == Without(pages, session.current_page)
            IN  /\ pages' = left
                /\ pc' = "ready"
                /\ ret' = "ok"
                /\ IF left = << >>
                   THEN session' = session
                   ELSE session'.current_page = left[1]]_vars

\* C18: when the liveness probe on the current page throws in _update_state, the last
\* of context.pages becomes the current page and the refresh continues on it; when no
\* page is left the refresh ends with the 'browser closed' BrowserError.
C18_RecoversOnLastPage ==
    [][(pc = "us_probe" /\ pc' # "us_probe" /\ ~Responsive(session.current_page)) =>
            IF pages # << >>
            THEN /\ session'.current_page = Last(pages)
                 /\ pc' = "us_extract"
                 /\ l_page' = Last(pages)
            ELSE /\ pc' = "ready"
                 /\ ret' = "BrowserError"
                 /\ why' = "browser_closed"
                 /\ session' = session]_vars

\* C18 where the last of context.pages answers: the recovery then does what C18 says.
C18_RecoversOnResponsiveLastPage ==
    [][(pc = "us_probe" /\ pc' # "us_probe" /\ ~Responsive(session.current_page)) =>
            IF pages # << >>
            THEN /\ session'.current_page = Last(pages)
                 /\ (Responsive(Last(pages)) => pc' = "us_extract" /\ l_page' = Last(pages))
            ELSE /\ pc' = "ready"
                 /\ ret' = "BrowserError"
                 /\ why' = "browser_closed"
                 /\ session' = session]_vars

\* C19: reset_context on an active session, with any number of open pages, ends with
\* the same engine context, exactly one page open in it, that page current, and the
\* cached snapshot equal to the empty initial snapshot.
C19_ResetLeavesOneBlankPage ==
    [][(pc = "reset" /\ pc' # "reset") =>
            /\ pc' = "ready"
            /\ ret' = "ok"
            /\ session'.context = session.context
            /\ n_contexts' = n_contexts
            /\ Len(pages') = 1
            /\ session'.current_page = pages'[1]
            /\ pages'[1] \notin crashed'
            /\ session'.cached_state.selector_map.kind = "empty"
            /\ session'.cached_state.tabs = 0
            /\ session'.cached_state.screenshot = "none"
            /\ session'.cached_state = InitialState(NoUrl)]_vars

\* C19's case: reset_context returned after closing several pages
C19_ResetClosedSeveralPages ==
    /\ Ended
    /\ op = "reset_context"
    /\ ret = "ok"
    /\ h_state.pages_closed >= 2
    /\ Len(pages) = 1

\* a snapshot a successful refresh of the present session produced
FromThisSession(state) == state # NoState /\ state.h_context = session.context

\* C20: when the extraction fails during a refresh, the refresh returns the snapshot
\* of the latest successful refresh of this session if there is one, and the failure
\* propagates only when there is none.
C20_FailedRefreshReturnsLastGood ==
    [][(pc = "us_extract" /\ pc' # "us_extract" /\ h_state'.extraction = "failed") =>
            /\ pc' = "ready"
            /\ IF FromThisSession(current_state)
               THEN /\ ret' = "ok"
                    /\ session'.cached_state = current_state
               ELSE /\ ret' \notin {"ok", "running"}
                    /\ session' = session]_vars

\* C20 for a BrowserContext that is never closed: the divergence needs C10's.
C20_WithoutClose ==
    [][(pc = "us_extract" /\ pc' # "us_extract" /\ h_state'.extraction = "failed"
            /\ ~closed_once) =>
            /\ pc' = "ready"
            /\ IF FromThisSession(current_state)
               THEN /\ ret' = "ok"
                    /\ session'.cached_state = current_state
               ELSE /\ ret' \notin {"ok", "running"}
                    /\ session' = session]_vars

(***************************************************************************)
(* Claims about get_locate_element and the selector it resolves.           *)
(***************************************************************************)
\* the selectors of the iframes among the ancestors, the outermost first (parents
\* lists the nearest ancestor first)
RECURSIVE OuterFirstFrames(_)
OuterFirstFrames(parents) ==
    IF parents = << >> THEN << >>
    ELSE OuterFirstFrames(Tail(parents))
            \o (IF Head(parents).tag_name = "iframe"
                THEN <<EnhancedCssSelectorForElement(Head(parents)).text>>
                ELSE << >>)

\* C15: get_locate_element enters the frame contexts of the element's iframe
\* ancestors in root-first order, each inside the one entered before it, and resolves
\* the element's own selector only inside the innermost of them; an ancestor that is
\* no iframe adds no frame context.
C15_FramesRootFirst ==
    LET expected == OuterFirstFrames(element.parents)
    IN  /\ \E k \in 0..Len(expected) : loc_frames = SubSeq(expected, 1, k)
        /\ loc_result.engine # "none" => loc_result.frames = expected

\* an element under a div inside two nested iframes with different selectors was found
C15_TwoNestedFrames ==
    /\ loc_pc = "done"
    /\ loc_result.returned = "handle"
    /\ Len(element.parents) = 3
    /\ \E i \in 1..3 : element.parents[i].tag_name = "div"
    /\ Len(loc_result.frames) = 2
    /\ loc_result.frames[1] # loc_result.frames[2]

\* C16: get_locate_element raises nothing when the engine fails: when nothing matches
\* the element's selector, when an ancestor iframe's selector does not resolve, when a
\* frame is detached (or the selector is rejected, or scrolling fails), it returns None.
C16_EngineFailureGivesNone ==
    loc_pc = "done" =>
        /\ loc_result.raised = "none"
        /\ loc_result.engine # "found" => loc_result.returned = "None"

\* the selector of an ancestor iframe did not resolve, and None was returned
C16_OuterFrameUnresolved ==
    /\ loc_pc = "done"
    /\ loc_result.engine = "frame_unresolved"
    /\ Len(loc_result.frames) = 2
    /\ loc_result.returned = "None"

\* a step of the synthesis raises for element e: its xpath is no str, its class is a
\* truthy value that is no str, or a safe attribute's value is no str
C17_StepFails(e) ==
    \/ e.xpath.kind = "int"
    \/ \E i \in 1..Len(e.attributes) :
          LET a == e.attributes[i]
          IN  \/ a.name = "class" /\ a.value.kind = "int" /\ a.value.n # 0
              \/ a.name # "class" /\ a.name \in SAFE_ATTRIBUTES /\ a.value.kind # "str"

C21_CurrentPageIsOpen == session.context # 0 => PageOpen(session.current_page)

\* the part of C21 that holds: only close_current_tab leaves the session with a
\* current page that is not open
C21_KeptButByCloseCurrentTab ==
    [][C21_CurrentPageIsOpen /\ pc # "cct" => C21_CurrentPageIsOpen']_vars

\* C29: once reset_context has run (or close, followed by a new session), no get_state
\* returns a snapshot that was extracted before it: the last good snapshot returned
\* when an extraction fails is never one from before the reset.
C29_NoSnapshotFromBeforeReset ==
    Ended /\ op = "get_state" /\ ret = "ok" =>
        /\ ~session.cached_state.h_stale
        /\ session.cached_state.h_context = session.context

\* the part of C29 that holds: a get_state whose extraction succeeds returns the
\* snapshot of that extraction
C29_FreshWhenExtracted ==
    Ended /\ op = "get_state" /\ h_state.extraction = "ok" =>
        /\ ret = "ok"
        /\ ~session.cached_state.h_stale
        /\ session.cached_state.h_context = session.context

\* the selector map of the most recent extraction on the session: that of the last
\* good snapshot when it was extracted in this session's context after the last
\* reset, the empty map otherwise
LatestSelectorMap ==
    IF /\ current_state # NoState
       /\ ~current_state.h_stale
       /\ current_state.h_context = session.context
    THEN current_state.selector_map
    ELSE SelectorMap("empty", NoUrl)

\* C22: after every operation the selector map of session.cached_state is the one of
\* the most recent DOM extraction on the session, done by get_state or by the
\* highlight refresh of a click or a text input, and is empty when nothing was
\* extracted since the session was created or reset.
C22_CachedMapIsLatest ==
    Ended /\ session.context # 0 => session.cached_state.selector_map = LatestSelectorMap

\* the part of C22 that holds: a get_state whose extraction succeeds leaves the map
\* of that extraction in session.cached_state
C22_GetStateCachesItsExtraction ==
    Ended /\ op = "get_state" /\ h_state.extraction = "ok" =>
        session.cached_state.selector_map = LatestSelectorMap

(***************************************************************************)
(* Claims about the state refresh.                                         *)
(***************************************************************************)
\* what a get_state call that ended did, by the branch its page-load wait took
C25_Outcome ==
    Ended /\ op = "get_state" =>
        \* the URL check found a violation: URLNotAllowedError, no snapshot was built
        /\ chk.violated => ret = "URLNotAllowedError" /\ ~h_state.called
        /\ ret = "URLNotAllowedError" => chk.violated
        \* the settle wait failed: the URL check was skipped and the refresh was done
        /\ h_wait.how = "failed" => ~chk.called /\ h_state.called

\* C25: in _wait_for_page_and_frames_load an allowlist violation found by the URL
\* check after the settle wait reaches the caller at once as URLNotAllowedError, with
\* no minimum-wait sleep and no snapshot built by get_state; any other failure of the
\* wait is swallowed and get_state goes on to build and return a snapshot.
C25_ViolationRaisesOtherFailureSwallowed ==
    /\ [](C25_Outcome)
    /\ [][pc = "wait_check" /\ chk'.violated =>
             pc' = "ready" /\ ret' = "URLNotAllowedError"]_vars
    /\ [][pc = "settle" /\ h_wait'.how = "failed" =>
             pc' = "wait_sleep" /\ ret' = "running"]_vars
    /\ [][pc = "wait_sleep" /\ op = "get_state" /\ pc' # pc => pc' = "us_probe"]_vars

\* C25's case: the settle wait of a get_state failed and the snapshot was returned
C25_SnapshotAfterFailedWait ==
    /\ Ended
    /\ op = "get_state"
    /\ h_wait.how = "failed"
    /\ ret = "ok"
    /\ h_state.extraction = "ok"
    /\ session.cached_state = current_state

\* a step of the new-page callback on_page
OnPageStep ==
    /\ pending_on_page' # pending_on_page
    /\ pending_on_page' \subseteq pending_on_page
    /\ pc' = pc

\* C27: the new-page callback on_page, whatever operation it interleaves with, changes
\* nothing but session.current_page: the cached state, the last good snapshot, the
\* context and its pages stay as they are, and without a session it changes nothing
\* and creates none.
C27_OnPageOnlyMovesPointer ==
    [][OnPageStep =>
          /\ session'.cached_state = session.cached_state
          /\ session'.context = session.context
          /\ current_state' = current_state
          /\ n_contexts' = n_contexts
          /\ pages' = pages
          /\ page_url' = page_url
          /\ session.context = 0 => session' = session]_vars

\* C27's case: on_page moved the pointer to a popup between the probe and the
\* extraction of a get_state, on a session whose cached state is a snapshot
C27_PointerMovedDuringRefresh ==
    /\ pc = "us_extract"
    /\ op = "get_state"
    /\ session.current_page # l_page
    /\ PageOpen(session.current_page)
    /\ pending_on_page = {}
    /\ session.cached_state.selector_map.kind = "elements"
    /\ session.cached_state = current_state

\* C28: every BrowserState _update_state produces describes one page: the element
\* tree, the selector map, the url, the title, the scroll offsets and the screenshot
\* are read from the same page, also when on_page moves the current-page pointer
\* while the refresh is suspended.
C28_SnapshotOfOnePage == current_state.h_one_page

\* the part of C28 that holds: a snapshot without a screenshot describes one page
C28_OnePageWithoutScreenshot == current_state.screenshot = "none" => current_state.h_one_page


(***************************************************************************)
(* Claims about the creation of the session.                               *)
(***************************************************************************)

\* the get_session calls that returned a session returned the same one
ReturnsAgree ==
    \A t1, t2 \in Tasks :
        t_ret[t1].context # 0 /\ t_ret[t2].context # 0 => t_ret[t1].context = t_ret[t2].context

\* C23: one BrowserContext has at most one session: callers of get_session that
\* overlap do not make the engine create two contexts, and all of them get the
\* same session (a cookie load that raises is left to C24)
C23_OneSessionPerContext ==
    cookies_file # "corrupt" => n_contexts <= 1 /\ ReturnsAgree

\* C23, the part that holds: a get_session call that finds the session present
\* returns it at once and creates nothing
C23_PresentSessionIsReturned ==
    [][\A t \in Tasks :
        /\ ~SessionIsNone
        /\ t_pc[t] \in {"idle", "done"}
        /\ t_pc'[t] = "done"
        /\ t_ret'[t] # t_ret[t] \/ t_context'[t] # t_context[t] \/ t_page'[t] # t_page[t]
        => /\ t_ret'[t] = [raised |-> FALSE, context |-> session.context]
           /\ n_contexts' = n_contexts
           /\ session' = session]_vars

\* C24: no failure to read or to load the cookies file makes a call of the
\* surrounding operation (here get_session, which creates the context) raise
C24_CookieFailureNeverPropagates ==
    \A t \in Tasks : ~t_ret[t].raised

\* C24, the part that holds: with no cookies file, or with one that loads, no
\* get_session call raises
C24_LoadableCookiesNeverRaise ==
    cookies_file # "corrupt" => \A t \in Tasks : ~t_ret[t].raised


====
